---- MODULE Spec2Model ----
(***************************************************************************)
(* Model of the RustyPipes (Octopipes) broker: the OctopipesServer with    *)
(* its CAP listener thread, its worker registry and the per-worker reader  *)
(* threads (src/src/server.rs), over an abstract FIFO layer                *)
(* (src/src/pipes/mod.rs) and the CAP payloads (src/src/cap/mod.rs); the    *)
(* OctopipesClient with its reader tasks (src/src/client.rs); and the      *)
(* loops of pipe_write (src/src/pipes/mod.rs); and the byte codecs of the  *)
(* messages (src/src/serializer/mod.rs) and of the CAP payloads; and the   *)
(* threads and mutexes of the broker's shutdown (src/src/server.rs).       *)
(***************************************************************************)
EXTENDS Integers, Sequences, FiniteSets, TLC

VARIABLES
    state,          \* OctopipesServer.state : Arc<Mutex<OctopipesServerState>>
    cap_listener,   \* OctopipesServer.cap_listener.is_some()
    listener,       \* position of the CAP listener thread
    cap_receiver,   \* OctopipesServer.cap_receiver : [some, q]
    capPipe,        \* frames written on the CAP FIFO and not yet read
    workers,        \* OctopipesServer.workers : Vec<OctopipesServerWorker>
    fs,             \* the FIFOs that exist on the filesystem
    mainPc,         \* position of the broker main thread
    pending,        \* the call the main thread is in the middle of
    sendLog,        \* history: the Worker.send calls made for inbox messages
    created,        \* history: FIFOs created since start_cap_listener, still there
    nextSeq,        \* history: number of the next message read by a worker
    readLog,        \* history: the messages read by the workers, by number
    cl,             \* one OctopipesClient: its state, pipe paths and handles
    readers,        \* the reader tasks loop_start spawned, with their channels
    clientPc,       \* position of the client main thread
    lastWrite,      \* history: the last frame the client wrote on a pipe
    pw,             \* the pipe_write call of a Worker.send in progress
    wire,           \* a message frame between encode_message and decode_message
    capw,           \* a CAP payload between its encoder and a decoder
    sd,             \* the threads and mutexes of a broker that is shut down
    drain           \* the get_all_message call in progress, or the last one

brokerVars == <<state, cap_listener, listener, cap_receiver, capPipe, workers,
                fs, mainPc, pending, sendLog, created, nextSeq, readLog>>

clientVars == <<cl, readers, clientPc, lastWrite>>

codecVars == <<wire, capw>>

vars == <<brokerVars, clientVars, pw, codecVars, sd, drain>>

\* ------------------------------------------------------------------ bounds
MaxMsgs == 2        \* messages the clients write on their TX pipes
MaxInbox == 2       \* items held in one worker inbox
MaxCap == 1         \* frames held in the CAP FIFO and the CAP channel together
MaxReaders == 2     \* reader tasks one client starts
MaxClientInbox == 1 \* items held in the channel of one client reader task
DataLen == 2        \* bytes of the frame a Worker.send writes
MaxStrLen == 1      \* chars of an origin, a remote, a group name or a path
MaxPayload == 1     \* bytes of the data of an encoded message
MaxGroups == 2      \* names of an encoded group list
ShutWorkers == 2    \* workers of a broker that is shut down
MaxTop == 4         \* data sizes 2^64 - k a frame declares: k in 1..MaxTop

\* ------------------------------------------------------------------ values
None == "None"
Clients == {"c1", "c2"}
client_folder == "/tmp/clients"
cap_pipe == "/tmp/cap.fifo"

\* OctopipesCapMessage and OctopipesCapError discriminants
Subscription == 1
Unsubscription == 2
Assignment == 255
NoError == 0
NameAlreadyTaken == 1
FileSystemError == 2

\* group lists a Subscription may carry (declared order, duplicates allowed)
GroupLists == {<<>>, <<"c1">>}
\* group lists handed to start_worker
WorkerGroups == {<<>>, <<"c1", "c1">>}
\* recipients of routed messages
Remotes == {None, "c1", "c2"}

\* ------------------------------------------------------------ CAP payloads
\* A payload is the tuple of its fields: type byte, then the body.
encode_subscribe(groups) == <<Subscription, Len(groups)>> \o groups

encode_unsubscribe == <<Unsubscription>>

encode_assignment(error, tx_pipe, rx_pipe) ==
    IF tx_pipe # None /\ rx_pipe # None
    THEN <<Assignment, error, tx_pipe, rx_pipe>>
    ELSE <<Assignment, error>>

\* the decoders return [err, value]: err is "Ok" or the OctopipesError
get_cap_message_type(data) ==
    IF Len(data) = 0 THEN [err |-> "BadPacket", value |-> 0]
    ELSE IF data[1] \in {Subscription, Unsubscription, Assignment}
    THEN [err |-> "Ok", value |-> data[1]]
    ELSE [err |-> "BadPacket", value |-> 0]

decode_subscribe(data) ==
    IF Len(data) < 2 THEN [err |-> "BadPacket", value |-> <<>>]
    ELSE IF data[1] # Subscription THEN [err |-> "BadPacket", value |-> <<>>]
    ELSE IF Len(data) - 2 < data[2] THEN [err |-> "BadPacket", value |-> <<>>]
    ELSE [err |-> "Ok", value |-> SubSeq(data, 3, 2 + data[2])]

decode_unsubscribe(data) ==
    IF Len(data) < 1 THEN [err |-> "BadPacket", value |-> 0]
    ELSE IF data[1] # Unsubscription THEN [err |-> "BadPacket", value |-> 0]
    ELSE [err |-> "Ok", value |-> Unsubscription]

\* OctopipesMessage as carried on the CAP
CapMessage(origin, remote, data) ==
    [origin |-> origin, remote |-> remote, data |-> data]

\* OctopipesMessage as routed between clients; seq numbers the inbox entry
Message(origin, remote, seq) ==
    [origin |-> origin, remote |-> remote, seq |-> seq]

\* ----------------------------------------------------------------- workers
TxPipe(dir, client_id) == dir \o "/" \o client_id \o "_tx.fifo"

RxPipe(dir, client_id) == dir \o "/" \o client_id \o "_rx.fifo"

Contains(seq, x) == \E i \in 1..Len(seq) : seq[i] = x

RemoveAt(seq, i) == SubSeq(seq, 1, i - 1) \o SubSeq(seq, i + 1, Len(seq))

\* Subscription::is_subscribed
SubscriptionIsSubscribedAlways(groups, to_find) == TRUE

SubscriptionIsSubscribed(groups, to_find) == Contains(groups, to_find)

\* OctopipesServerWorker::is_subscribed
WorkerIsSubscribed(w, subscription) ==
    SubscriptionIsSubscribed(w.groups, subscription)

\* OctopipesServerWorker::new; fail names the pipe_create that fails
WorkerNewNoInvert(client_id, subscriptions, cli_pipe_tx, cli_pipe_rx, files, fail) ==
    IF fail = "rx" THEN [ret |-> "OpenFailed", fs |-> files, made |-> {}]
    ELSE IF fail = "tx"
    THEN [ret |-> "OpenFailed", fs |-> files \cup {cli_pipe_rx},
          made |-> {cli_pipe_rx}]
    ELSE [ret |-> "Ok", fs |-> files \cup {cli_pipe_rx, cli_pipe_tx},
          made |-> {cli_pipe_rx, cli_pipe_tx},
          worker |-> [client_id |-> client_id, groups |-> subscriptions,
                      pipe_read |-> cli_pipe_rx, pipe_write |-> cli_pipe_tx,
                      worker_loop |-> TRUE, worker_active |-> TRUE,
                      inbox |-> <<>>]]

WorkerNew(client_id, subscriptions, cli_pipe_tx, cli_pipe_rx, files, fail) ==
    IF fail = "rx" THEN [ret |-> "OpenFailed", fs |-> files, made |-> {}]
    ELSE IF fail = "tx"
    THEN [ret |-> "OpenFailed", fs |-> files \cup {cli_pipe_rx},
          made |-> {cli_pipe_rx}]
    ELSE [ret |-> "Ok", fs |-> files \cup {cli_pipe_rx, cli_pipe_tx},
          made |-> {cli_pipe_rx, cli_pipe_tx},
          worker |-> [client_id |-> client_id, groups |-> subscriptions,
                      pipe_read |-> cli_pipe_tx, pipe_write |-> cli_pipe_rx,
                      worker_loop |-> TRUE, worker_active |-> TRUE,
                      inbox |-> <<>>]]

\* OctopipesServer::worker_exists
worker_exists_never(ws, worker_name) == FALSE

worker_exists(ws, worker_name) ==
    \E i \in 1..Len(ws) : ws[i].client_id = worker_name

\* OctopipesServer::start_worker
start_worker(st, ws, files, client, subscriptions, cli_tx_pipe, cli_rx_pipe, fail) ==
    IF st # "Running"
    THEN [ret |-> "Uninitialized", workers |-> ws, fs |-> files, made |-> {}]
    ELSE IF worker_exists(ws, client)
    THEN [ret |-> "WorkerExists", workers |-> ws, fs |-> files, made |-> {}]
    ELSE LET n == WorkerNew(client, subscriptions, cli_tx_pipe, cli_rx_pipe,
                            files, fail)
         IN  IF n.ret = "Ok"
             THEN [ret |-> "Ok", workers |-> Append(ws, n.worker),
                   fs |-> n.fs, made |-> n.made]
             ELSE [ret |-> n.ret, workers |-> ws, fs |-> n.fs, made |-> n.made]

\* OctopipesServerWorker::stop_worker; last is the item the reader task puts
\* in the inbox in its final iteration, before the join returns
WorkerStop(w, files, last) ==
    IF w.worker_loop
    THEN [ret |-> "Ok",
          worker |-> [w EXCEPT !.worker_active = FALSE, !.worker_loop = FALSE,
                               !.inbox = Append(w.inbox, last)],
          fs |-> files \ {w.pipe_read, w.pipe_write}]
    ELSE [ret |-> "WorkerNotRunning",
          worker |-> [w EXCEPT !.worker_active = FALSE],
          fs |-> files]

\* OctopipesServer::stop_worker: the first worker named client is stopped and
\* removed from the registry, whatever its stop returned
RECURSIVE FindWorker(_, _, _)
FindWorker(ws, client, i) ==
    IF i > Len(ws) THEN 0
    ELSE IF ws[i].client_id = client THEN i
    ELSE FindWorker(ws, client, i + 1)

stop_worker_last(ws, files, client, last) ==
    LET item == FindWorker(ws, client, 1)
    IN  IF item = 0
        THEN [ret |-> "WorkerNotFound", workers |-> ws, fs |-> files]
        ELSE LET r == WorkerStop(ws[item], files, last)
             IN  [ret |-> r.ret, workers |-> RemoveAt(ws, Len(ws)), fs |-> r.fs]

stop_worker(ws, files, client, last) ==
    LET item == FindWorker(ws, client, 1)
    IN  IF item = 0
        THEN [ret |-> "WorkerNotFound", workers |-> ws, fs |-> files]
        ELSE LET r == WorkerStop(ws[item], files, last)
             IN  [ret |-> r.ret, workers |-> RemoveAt(ws, item), fs |-> r.fs]

\* the loop of OctopipesServer::stop_server over the registry, from worker i
RECURSIVE StopWorkers(_, _, _, _)
StopWorkers(ws, files, i, last) ==
    IF i > Len(ws) THEN [ret |-> "Ok", workers |-> ws, fs |-> files]
    ELSE LET r == WorkerStop(ws[i], files, last)
         IN  IF r.ret # "Ok"
             THEN [ret |-> r.ret, workers |-> [ws EXCEPT ![i] = r.worker],
                   fs |-> r.fs]
             ELSE StopWorkers([ws EXCEPT ![i] = r.worker], r.fs, i + 1, last)

\* OctopipesServer::match_subscription: the matching workers, in registry order
RECURSIVE match_subscription(_, _, _)
match_subscription(ws, subscription, i) ==
    IF i > Len(ws) THEN <<>>
    ELSE (IF WorkerIsSubscribed(ws[i], subscription) THEN <<ws[i]>> ELSE <<>>)
         \o match_subscription(ws, subscription, i + 1)

\* OctopipesServerWorker::send: pipe_write on the worker's write pipe; the
\* clients in okset read their RX pipe in time, the others do not
WorkerSend(w, message, okset, files) ==
    IF w.pipe_write \in files /\ w.client_id \in okset
    THEN "Ok" ELSE "WriteFailed"

\* the loop of OctopipesServer::dispatch_message over the matching workers:
\* the send calls made, in order, and the first failure if any
RECURSIVE SendEach(_, _, _, _, _, _)
SendEach(matched, i, message, okset, files, sends) ==
    IF i > Len(matched)
    THEN [ret |-> "Ok", failed |-> None, sends |-> sends]
    ELSE LET r == WorkerSend(matched[i], message, okset, files)
             s == Append(sends, matched[i].client_id)
         IN  IF r # "Ok"
             THEN [ret |-> r, failed |-> matched[i].client_id, sends |-> s]
             ELSE SendEach(matched, i + 1, message, okset, files, s)

\* OctopipesServer::dispatch_message
RECURSIVE SendEach_goes_on(_, _, _, _, _, _, _)
SendEach_goes_on(matched, i, message, okset, files, sends, first) ==
    IF i > Len(matched)
    THEN [ret |-> first.ret, failed |-> first.failed, sends |-> sends]
    ELSE LET r == WorkerSend(matched[i], message, okset, files)
         IN  SendEach_goes_on(matched, i + 1, message, okset, files,
                 Append(sends, matched[i].client_id),
                 IF r # "Ok" /\ first.ret = "Ok"
                 THEN [ret |-> r, failed |-> matched[i].client_id]
                 ELSE first)

dispatch_message_goes_on(ws, message, okset, files) ==
    IF message.remote = None
    THEN [ret |-> "NoRecipient", failed |-> None, sends |-> <<>>]
    ELSE SendEach_goes_on(match_subscription(ws, message.remote, 1), 1,
                          message, okset, files, <<>>,
                          [ret |-> "Ok", failed |-> None])

dispatch_message(ws, message, okset, files) ==
    IF message.remote = None
    THEN [ret |-> "NoRecipient", failed |-> None, sends |-> <<>>]
    ELSE SendEach(match_subscription(ws, message.remote, 1), 1, message,
                  okset, files, <<>>)

\* OctopipesServerWorker::get_next_message: try_recv on the inbox channel;
\* the channel is disconnected once the reader task has ended
get_next_message_last(w) ==
    IF Len(w.inbox) = 0
    THEN [ret |-> IF w.worker_loop THEN "None" ELSE "WorkerNotRunning",
          inbox |-> w.inbox]
    ELSE LET n == Len(w.inbox)
         IN  IF w.inbox[n].ok
             THEN [ret |-> "Some", message |-> w.inbox[n].msg,
                   inbox |-> SubSeq(w.inbox, 1, n - 1)]
             ELSE [ret |-> w.inbox[n].err, inbox |-> SubSeq(w.inbox, 1, n - 1)]

get_next_message(w) ==
    IF Len(w.inbox) = 0
    THEN [ret |-> IF w.worker_loop THEN "None" ELSE "WorkerNotRunning",
          inbox |-> w.inbox]
    ELSE IF Head(w.inbox).ok
    THEN [ret |-> "Some", message |-> Head(w.inbox).msg, inbox |-> Tail(w.inbox)]
    ELSE [ret |-> Head(w.inbox).err, inbox |-> Tail(w.inbox)]

\* the send calls of one dispatch, as entries of the send history
LogOf(disp, src, seq) ==
    [k \in 1..Len(disp.sends) |-> [to |-> disp.sends[k], src |-> src, seq |-> seq]]

\* the loop of OctopipesServer::process_once (first = FALSE) and process_first
\* (first = TRUE) over the registry, from worker i
RECURSIVE ProcessWorkers(_, _, _, _, _, _, _)
ProcessWorkers(ws, i, first, okset, files, processed, log) ==
    IF i > Len(ws)
    THEN [ret |-> "Ok", client |-> None, processed |-> processed,
          workers |-> ws, log |-> log]
    ELSE LET g == get_next_message(ws[i])
             ws1 == [ws EXCEPT ![i].inbox = g.inbox]
         IN  IF g.ret = "None"
             THEN ProcessWorkers(ws1, i + 1, first, okset, files, processed, log)
             ELSE IF g.ret = "Some"
             THEN LET d == dispatch_message(ws1, g.message, okset, files)
                      log1 == log \o LogOf(d, ws[i].client_id, g.message.seq)
                  IN  IF d.ret # "Ok"
                      THEN [ret |-> d.ret, client |-> ws[i].client_id,
                            processed |-> processed, workers |-> ws1,
                            log |-> log1]
                      ELSE IF first
                      THEN [ret |-> "Ok", client |-> None,
                            processed |-> processed + 1, workers |-> ws1,
                            log |-> log1]
                      ELSE ProcessWorkers(ws1, i + 1, first, okset, files,
                                          processed + 1, log1)
             ELSE [ret |-> g.ret, client |-> ws[i].client_id,
                   processed |-> processed, workers |-> ws1, log |-> log]

process_first(ws, okset, files) ==
    ProcessWorkers(ws, 1, TRUE, okset, files, 0, <<>>)

process_once(ws, okset, files) ==
    ProcessWorkers(ws, 1, FALSE, okset, files, 0, <<>>)

\* OctopipesServer::process_all: process_once until it processes nothing
RECURSIVE ProcessAllLoop(_, _, _, _, _)
ProcessAllLoop(ws, okset, files, total, log) ==
    LET r == ProcessWorkers(ws, 1, FALSE, okset, files, 0, log)
    IN  IF r.ret # "Ok" THEN r
        ELSE IF r.processed = 0 THEN [r EXCEPT !.processed = total]
        ELSE ProcessAllLoop(r.workers, okset, files, total + r.processed, r.log)

process_all(ws, okset, files) == ProcessAllLoop(ws, okset, files, 0, <<>>)

\* ------------------------------------------------------------------ inputs
\* what a read of a pipe decodes to: a message or a codec error
OkItem(m) == [ok |-> TRUE, msg |-> m, err |-> "Ok"]

ErrItem(e) == [ok |-> FALSE, msg |-> Message(None, None, 0), err |-> e]

CapErrItem(e) == [ok |-> FALSE, msg |-> CapMessage(None, None, <<>>), err |-> e]

\* bodies of the CAP messages handed to manage_cap_message
CapBodies ==
    {encode_subscribe(g) : g \in GroupLists}
    \cup {encode_unsubscribe, encode_assignment(NoError, None, None),
          <<Subscription, 2, "c1">>, <<>>, <<3>>}

CapMessages ==
    {CapMessage(o, None, d) : o \in Clients \cup {None}, d \in CapBodies}

\* frames the clients write on the CAP FIFO
CapFrames ==
    {OkItem(CapMessage("c1", None, encode_subscribe(<<>>))),
     CapErrItem("BadPacket")}

\* what a reader task puts in the inbox when its read returned no data
IdleItem == ErrItem("BadPacket")

\* ------------------------------------------------------- CAP handling (pure)
\* OctopipesServer::lock_cap and unlock_cap: the state each one sets
lock_cap(st) == "Block"

unlock_cap_stays(st) == st

unlock_cap(st) == "Running"

\* OctopipesServer::manage_subscription, up to its write on the CAP: the
\* registry and the FIFOs it leaves, the Assignment it writes, and what it
\* returns when the write succeeds (okRet) and when it fails (failRet)
manage_subscription_unchecked(st, ws, files, client_id, groups, fail) ==
    LET tx_pipe == TxPipe(client_folder, client_id)
        rx_pipe == RxPipe(client_folder, client_id)
        r == start_worker(st, ws, files, client_id, groups, tx_pipe, rx_pipe, fail)
    IN  IF r.ret # "Ok"
        THEN [write |-> TRUE, workers |-> r.workers, fs |-> r.fs, made |-> r.made,
              data |-> encode_assignment(FileSystemError, None, None),
              okRet |-> r.ret, failRet |-> r.ret]
        ELSE [write |-> TRUE, workers |-> r.workers, fs |-> r.fs, made |-> r.made,
              data |-> encode_assignment(NoError, tx_pipe, rx_pipe),
              okRet |-> "Subscription", failRet |-> "WriteFailed"]

\* the same outcome without the write on the CAP
NoWriteOf(r) == [r EXCEPT !.write = FALSE, !.data = <<>>]

manage_subscription_quiet(st, ws, files, client_id, groups, fail) ==
    LET r == manage_subscription_unchecked(st, ws, files, client_id, groups, fail)
    IN  IF \E i \in 1..Len(ws) : ws[i].client_id = client_id
        THEN [write |-> TRUE, workers |-> ws, fs |-> files, made |-> {},
              data |-> encode_assignment(NameAlreadyTaken, None, None),
              okRet |-> "WorkerExists", failRet |-> "WorkerExists"]
        ELSE IF r.okRet # "Subscription"
        THEN NoWriteOf(r)
        ELSE r

manage_subscription(st, ws, files, client_id, groups, fail) ==
    IF \E i \in 1..Len(ws) : ws[i].client_id = client_id
    THEN [write |-> TRUE, workers |-> ws, fs |-> files, made |-> {},
          data |-> encode_assignment(NameAlreadyTaken, None, None),
          okRet |-> "WorkerExists", failRet |-> "WorkerExists"]
    ELSE manage_subscription_unchecked(st, ws, files, client_id, groups, fail)

\* a call that returns without writing on the CAP
NoWrite(ret, ws, files) ==
    [write |-> FALSE, workers |-> ws, fs |-> files, made |-> {}, data |-> <<>>,
     okRet |-> ret, failRet |-> ret]

\* OctopipesServer::manage_unsubscription
manage_unsubscription(ws, files, client_id) ==
    IF ~(\E i \in 1..Len(ws) : ws[i].client_id = client_id)
    THEN NoWrite("WorkerNotFound", ws, files)
    ELSE LET r == stop_worker(ws, files, client_id, IdleItem)
         IN  NoWrite(IF r.ret = "Ok" THEN "Unsubscription" ELSE r.ret,
                     r.workers, r.fs)

\* OctopipesServer::manage_cap_message, up to its write on the CAP
manage_cap_message_type_first(st, ws, files, message, fail) ==
    LET cap_message == get_cap_message_type(message.data)
    IN  IF cap_message.err # "Ok" THEN NoWrite(cap_message.err, ws, files)
        ELSE IF message.origin = None THEN NoWrite("NoRecipient", ws, files)
        ELSE IF cap_message.value = Subscription
        THEN LET groups == decode_subscribe(message.data)
             IN  IF groups.err # "Ok"
                 THEN NoWrite(groups.err, ws, files)
                 ELSE manage_subscription(st, ws, files, message.origin,
                          Append(groups.value, message.origin), fail)
        ELSE IF cap_message.value = Unsubscription
        THEN manage_unsubscription(ws, files, message.origin)
        ELSE NoWrite("BadPacket", ws, files)

manage_cap_message(st, ws, files, message, fail) ==
    IF message.origin = None THEN NoWrite("NoRecipient", ws, files)
    ELSE LET cap_message == get_cap_message_type(message.data)
         IN  IF cap_message.err # "Ok" THEN NoWrite(cap_message.err, ws, files)
             ELSE IF cap_message.value = Subscription
             THEN LET groups == decode_subscribe(message.data)
                  IN  IF groups.err # "Ok"
                      THEN NoWrite(groups.err, ws, files)
                      ELSE manage_subscription(st, ws, files, message.origin,
                               Append(groups.value, message.origin), fail)
             ELSE IF cap_message.value = Unsubscription
             THEN IF decode_unsubscribe(message.data).err # "Ok"
                  THEN NoWrite(decode_unsubscribe(message.data).err, ws, files)
                  ELSE manage_unsubscription(ws, files, message.origin)
             ELSE NoWrite("BadPacket", ws, files)

\* the check OctopipesServer::stop_server starts with
StopServerReturnsEarlyUnlessNew(st) == st = "Initialized"

StopServerReturnsEarly(st) == st # "Running"

\* OctopipesServer::stop_server up to the join of the CAP listener: what it
\* returns, the state, registry and FIFOs it leaves, and whether it goes on
\* to join the listener
stop_server(st, ws, files) ==
    IF StopServerReturnsEarly(st)
    THEN [ret |-> "Ok", state |-> st, workers |-> ws, fs |-> files,
          join |-> FALSE]
    ELSE LET r == StopWorkers(ws, files, 1, IdleItem)
         IN  IF r.ret # "Ok"
             THEN [ret |-> r.ret, state |-> st, workers |-> r.workers,
                   fs |-> r.fs, join |-> FALSE]
             ELSE IF st = "Running"
             THEN [ret |-> "Ok", state |-> "Stopped", workers |-> r.workers,
                   fs |-> r.fs, join |-> TRUE]
             ELSE [ret |-> "Ok", state |-> st, workers |-> r.workers,
                   fs |-> r.fs, join |-> FALSE]

\* OctopipesServer::is_subscribed: whether it returns Some
is_subscribed(ws, client) == \E i \in 1..Len(ws) : ws[i].client_id = client

\* OctopipesServer::get_clients
get_clients(ws) == [i \in 1..Len(ws) |-> ws[i].client_id]

\* OctopipesServer::get_subscriptions
RECURSIVE get_subscriptions(_, _, _)
get_subscriptions(ws, client, i) ==
    IF i > Len(ws) THEN [some |-> FALSE, groups |-> <<>>]
    ELSE IF ws[i].client_id = client
    THEN [some |-> TRUE, groups |-> ws[i].groups]
    ELSE get_subscriptions(ws, client, i + 1)

\* ------------------------------------------------- calls of the main thread
StartCapListener ==
    /\ mainPc = "idle"
    /\ IF cap_listener
       THEN UNCHANGED <<state, cap_listener, listener, cap_receiver, fs, created>>
       ELSE \E pipe_created \in BOOLEAN :
              IF ~pipe_created
              THEN UNCHANGED <<state, cap_listener, listener, cap_receiver, fs,
                               created>>
              ELSE /\ fs' = fs \cup {cap_pipe}
                   /\ state' = "Running"
                   /\ cap_receiver' = [some |-> TRUE, q |-> <<>>]
                   /\ cap_listener' = TRUE
                   /\ listener' = "check"
                   /\ created' = {cap_pipe}
    /\ UNCHANGED <<capPipe, workers, mainPc, pending, sendLog, nextSeq, readLog>>
    /\ UNCHANGED <<clientVars, pw, codecVars, sd, drain>>

\* the call the main thread is in the middle of
Call(op, arg, client, data, okRet, failRet) ==
    [op |-> op, arg |-> arg, client |-> client, data |-> data,
     okRet |-> okRet, failRet |-> failRet]

\* stop_cap_listener up to its join
StopCapListener ==
    /\ mainPc = "idle"
    /\ IF state = "Running"
       THEN /\ state' = "Stopped"
            /\ mainPc' = "join_listener"
            /\ pending' = <<Call("stop_cap_listener", <<>>, None, <<>>, "Ok", "Ok")>>
       ELSE UNCHANGED <<state, mainPc, pending>>
    /\ UNCHANGED <<cap_listener, listener, cap_receiver, capPipe, workers, fs,
                   sendLog, created, nextSeq, readLog>>
    /\ UNCHANGED <<clientVars, pw, codecVars, sd, drain>>

\* the rest of stop_cap_listener: the join returns once the listener task has
\* ended, then the CAP FIFO is deleted
JoinListener ==
    /\ mainPc = "join_listener"
    /\ cap_listener => listener = "done"
    /\ cap_listener' = FALSE
    /\ listener' = "none"
    /\ fs' = fs \ {cap_pipe}
    /\ created' = created \ {cap_pipe}
    /\ capPipe' = <<>>
    /\ mainPc' = "idle"
    /\ pending' = <<>>
    /\ UNCHANGED <<state, cap_receiver, workers, sendLog, nextSeq, readLog>>
    /\ UNCHANGED <<clientVars, pw, codecVars, sd, drain>>

StopServer ==
    /\ mainPc = "idle"
    /\ LET r == stop_server(state, workers, fs)
       IN  /\ workers' = r.workers
           /\ fs' = r.fs
           /\ created' = created \cap r.fs
           /\ state' = r.state
           /\ IF r.join
              THEN /\ mainPc' = "join_listener"
                   /\ pending' = <<Call("stop_server", <<>>, None, <<>>, "Ok", "Ok")>>
              ELSE UNCHANGED <<mainPc, pending>>
    /\ UNCHANGED <<cap_listener, listener, cap_receiver, capPipe, sendLog,
                   nextSeq, readLog>>
    /\ UNCHANGED <<clientVars, pw, codecVars, sd, drain>>

\* manage_cap_message up to lock_cap; op is the call it is made for
DoManageCap(op, message) ==
    \E fail \in {"none", "rx", "tx"} :
      LET r == manage_cap_message(state, workers, fs, message, fail)
      IN  /\ workers' = r.workers
          /\ fs' = r.fs
          /\ created' = (created \cup r.made) \cap r.fs
          /\ IF r.write
             THEN /\ state' = lock_cap(state)
                  /\ mainPc' = "cap_write"
                  /\ pending' = <<Call(op, <<message>>, message.origin, r.data,
                                       r.okRet, r.failRet)>>
             ELSE UNCHANGED <<state, mainPc, pending>>

ManageCapMessage ==
    /\ mainPc = "idle"
    /\ \E message \in CapMessages : DoManageCap("manage_cap_message", message)
    /\ UNCHANGED <<cap_listener, listener, cap_receiver, capPipe, sendLog,
                   nextSeq, readLog>>
    /\ UNCHANGED <<clientVars, pw, codecVars, sd, drain>>

\* the rest of write_cap: pipe_write on the CAP, then unlock_cap. The write
\* succeeds when a reader takes the frame, or leaves it in the FIFO
CapWrite ==
    /\ mainPc = "cap_write"
    /\ \E written \in BOOLEAN, taken \in BOOLEAN :
         LET p == pending[1]
         IN  /\ written => cap_pipe \in fs
             /\ (written /\ ~taken) => Len(capPipe) + Len(cap_receiver.q) < MaxCap
             /\ ~written => taken
             /\ capPipe' = IF written /\ ~taken
                           THEN Append(capPipe,
                                    OkItem(CapMessage(None, p.client, p.data)))
                           ELSE capPipe
             /\ state' = unlock_cap(state)
    /\ mainPc' = "idle"
    /\ pending' = <<>>
    /\ UNCHANGED <<cap_listener, listener, cap_receiver, workers, fs, sendLog,
                   created, nextSeq, readLog>>
    /\ UNCHANGED <<clientVars, pw, codecVars, sd, drain>>

ProcessCapOnce ==
    /\ mainPc = "idle"
    /\ IF state # "Running" \/ ~cap_receiver.some
       THEN UNCHANGED <<state, cap_receiver, workers, fs, mainPc, pending,
                        created>>
       ELSE IF cap_receiver.q = <<>>
       THEN UNCHANGED <<state, cap_receiver, workers, fs, mainPc, pending,
                        created>>
       ELSE /\ cap_receiver' = [cap_receiver EXCEPT !.q = Tail(@)]
            /\ IF Head(cap_receiver.q).ok
               THEN DoManageCap("process_cap_once", Head(cap_receiver.q).msg)
               ELSE UNCHANGED <<state, workers, fs, mainPc, pending, created>>
    /\ UNCHANGED <<cap_listener, listener, capPipe, sendLog, nextSeq, readLog>>
    /\ UNCHANGED <<clientVars, pw, codecVars, sd, drain>>

StartWorker ==
    /\ mainPc = "idle"
    /\ \E client \in Clients, subscriptions \in WorkerGroups,
          fail \in {"none", "rx", "tx"} :
         LET r == start_worker(state, workers, fs, client, subscriptions,
                               TxPipe(client_folder, client),
                               RxPipe(client_folder, client), fail)
         IN  /\ workers' = r.workers
             /\ fs' = r.fs
             /\ created' = (created \cup r.made) \cap r.fs
    /\ UNCHANGED <<state, cap_listener, listener, cap_receiver, capPipe,
                   mainPc, pending, sendLog, nextSeq, readLog>>
    /\ UNCHANGED <<clientVars, pw, codecVars, sd, drain>>

StopWorker ==
    /\ mainPc = "idle"
    /\ \E client \in Clients :
         LET r == stop_worker(workers, fs, client, IdleItem)
         IN  /\ workers' = r.workers
             /\ fs' = r.fs
             /\ created' = created \cap r.fs
    /\ UNCHANGED <<state, cap_listener, listener, cap_receiver, capPipe,
                   mainPc, pending, sendLog, nextSeq, readLog>>
    /\ UNCHANGED <<clientVars, pw, codecVars, sd, drain>>

\* a call of process_first, process_once or process_all that returned r
Processed(r) ==
    /\ workers' = r.workers
    /\ sendLog' = sendLog \o r.log
    /\ UNCHANGED <<state, cap_listener, listener, cap_receiver, capPipe, fs,
                   mainPc, pending, created, nextSeq, readLog>>
    /\ UNCHANGED <<clientVars, pw, codecVars, sd, drain>>

ProcessFirst ==
    /\ mainPc = "idle"
    /\ \E okset \in SUBSET Clients : Processed(process_first(workers, okset, fs))

ProcessOnce ==
    /\ mainPc = "idle"
    /\ \E okset \in SUBSET Clients : Processed(process_once(workers, okset, fs))

ProcessAll ==
    /\ mainPc = "idle"
    /\ \E okset \in SUBSET Clients : Processed(process_all(workers, okset, fs))

\* ------------------------------------------------------------ other threads
\* the CAP listener task: the state check at the top of its loop
ListenerCheck ==
    /\ listener = "check"
    /\ listener' = IF state = "Block" THEN "check"
                   ELSE IF state = "Running" THEN "read"
                   ELSE "done"
    /\ UNCHANGED <<state, cap_listener, cap_receiver, capPipe, workers, fs,
                   mainPc, pending, sendLog, created, nextSeq, readLog>>
    /\ UNCHANGED <<clientVars, pw, codecVars, sd, drain>>

\* the CAP listener task: pipe_read on the CAP returns; what was read is
\* decoded and sent on the channel
ListenerRead ==
    /\ listener = "read"
    /\ IF cap_pipe \notin fs \/ capPipe = <<>>
       THEN UNCHANGED <<cap_receiver, capPipe>>
       ELSE /\ cap_receiver' = [cap_receiver EXCEPT !.q = Append(@, Head(capPipe))]
            /\ capPipe' = <<>>
    /\ listener' = "check"
    /\ UNCHANGED <<state, cap_listener, workers, fs, mainPc, pending, sendLog,
                   created, nextSeq, readLog>>
    /\ UNCHANGED <<clientVars, pw, codecVars, sd, drain>>

\* the registered clients whose groups hold the recipient of a message
Matching(ws, remote) ==
    {ws[i].client_id : i \in {k \in 1..Len(ws) : Contains(ws[k].groups, remote)}}

\* what one iteration of a worker's reader task puts in the inbox: the error
\* of decoding an empty read, or a message its client wrote
ReadItems(w) ==
    IF w.pipe_read \notin fs THEN {ErrItem("ReadFailed")}
    ELSE {IdleItem}
         \cup (IF nextSeq <= MaxMsgs
               THEN {OkItem(Message(w.client_id, r, nextSeq)) : r \in Remotes}
               ELSE {})

WorkerRead ==
    /\ \E i \in 1..Len(workers) :
         /\ workers[i].worker_loop
         /\ Len(workers[i].inbox) < MaxInbox
         /\ \E item \in ReadItems(workers[i]) :
              /\ workers' = [workers EXCEPT ![i].inbox = Append(@, item)]
              /\ nextSeq' = IF item.ok THEN nextSeq + 1 ELSE nextSeq
              /\ readLog' = IF item.ok
                            THEN Append(readLog,
                                     [src |-> item.msg.origin,
                                      to |-> Matching(workers, item.msg.remote)])
                            ELSE readLog
    /\ UNCHANGED <<state, cap_listener, listener, cap_receiver, capPipe, fs,
                   mainPc, pending, sendLog, created>>
    /\ UNCHANGED <<clientVars, pw, codecVars, sd, drain>>

\* ------------------------------------------------------------- the clients
ClientWriteCap ==
    /\ cap_pipe \in fs
    /\ Len(capPipe) + Len(cap_receiver.q) < MaxCap
    /\ \E frame \in CapFrames : capPipe' = Append(capPipe, frame)
    /\ UNCHANGED <<state, cap_listener, listener, cap_receiver, workers, fs,
                   mainPc, pending, sendLog, created, nextSeq, readLog>>
    /\ UNCHANGED <<clientVars, pw, codecVars, sd, drain>>

ClientReadCap ==
    /\ capPipe # <<>>
    /\ capPipe' = <<>>
    /\ UNCHANGED <<state, cap_listener, listener, cap_receiver, workers, fs,
                   mainPc, pending, sendLog, created, nextSeq, readLog>>
    /\ UNCHANGED <<clientVars, pw, codecVars, sd, drain>>

\* --------------------------------------------------------------- the client
\* the id the OctopipesClient was built with
ClientId == "c1"

\* an OctopipesMessage built by OctopipesMessage::new for a client pipe
OctopipesMessage_new(origin, remote, ttl, options, data) ==
    [origin |-> origin, remote |-> remote, ttl |-> ttl, options |-> options,
     data |-> data]

\* a frame written on a pipe; NoFrame when nothing was written
Frame(pipe, msg) == [pipe |-> pipe, msg |-> msg]

NoFrame == Frame(None, <<>>)

\* cap::decode_assignment: [err, cap_error, pipe_tx, pipe_rx]
decode_assignment(data) ==
    LET bad == [err |-> "BadPacket", cap_error |-> NoError, pipe_tx |-> None,
                pipe_rx |-> None]
    IN  IF Len(data) < 2 THEN bad
        ELSE IF data[1] # Assignment THEN bad
        ELSE IF data[2] \notin {NoError, NameAlreadyTaken, FileSystemError}
        THEN bad
        ELSE IF data[2] # NoError
        THEN [err |-> "Ok", cap_error |-> data[2], pipe_tx |-> None,
              pipe_rx |-> None]
        ELSE IF Len(data) < 4 THEN bad
        ELSE [err |-> "Ok", cap_error |-> NoError, pipe_tx |-> data[3],
              pipe_rx |-> data[4]]

\* OctopipesClient::new
OctopipesClient_new(client_id) ==
    [id |-> client_id, tx_pipe |-> None, rx_pipe |-> None,
     state |-> "Initialized", client_loop |-> 0, client_receiver |-> 0]

\* OctopipesClient::send_cap; wrote tells whether pipe_write succeeded
send_cap(c, payload, wrote) ==
    IF wrote
    THEN [ret |-> "Ok", out |-> Frame(cap_pipe, CapMessage(c.id, None, payload))]
    ELSE [ret |-> "WriteFailed", out |-> NoFrame]

\* what pipe_read on the CAP gives OctopipesClient::subscribe
ReadErr == [kind |-> "Err", item |-> CapErrItem("Ok")]

ReadNone == [kind |-> "None", item |-> CapErrItem("Ok")]

ReadData(item) == [kind |-> "Data", item |-> item]

\* OctopipesClient::subscribe, with the outcome of its write and of its read
subscribe_early(c, subscription_list, wrote, reply) ==
    LET s == send_cap(c, encode_subscribe(subscription_list), wrote)
        fail(e) == [ret |-> e, cap_error |-> NoError, client |-> c, out |-> s.out]
    IN  IF s.ret # "Ok" THEN fail(s.ret)
        ELSE IF reply.kind = "Err" THEN fail("ReadFailed")
        ELSE IF reply.kind = "None" THEN fail("NoDataAvailable")
        ELSE IF ~reply.item.ok THEN fail(reply.item.err)
        ELSE LET data == reply.item.msg.data
                 t == get_cap_message_type(data)
             IN  IF t.err # "Ok" THEN fail(t.err)
                 ELSE IF t.value # Assignment THEN fail("BadPacket")
                 ELSE LET a == decode_assignment(data)
                      IN  IF a.err # "Ok" THEN fail(a.err)
                          ELSE [ret |-> "Ok", cap_error |-> a.cap_error,
                                client |-> [c EXCEPT !.tx_pipe = a.pipe_tx,
                                                     !.rx_pipe = a.pipe_rx,
                                                     !.state = "Subscribed"],
                                out |-> s.out]

subscribe(c, subscription_list, wrote, reply) ==
    LET s == send_cap(c, encode_subscribe(subscription_list), wrote)
        fail(e) == [ret |-> e, cap_error |-> NoError, client |-> c, out |-> s.out]
    IN  IF s.ret # "Ok" THEN fail(s.ret)
        ELSE IF reply.kind = "Err" THEN fail("ReadFailed")
        ELSE IF reply.kind = "None" THEN fail("NoDataAvailable")
        ELSE IF ~reply.item.ok THEN fail(reply.item.err)
        ELSE LET data == reply.item.msg.data
                 t == get_cap_message_type(data)
             IN  IF t.err # "Ok" THEN fail(t.err)
                 ELSE IF t.value # Assignment THEN fail("BadPacket")
                 ELSE LET a == decode_assignment(data)
                      IN  IF a.err # "Ok" THEN fail(a.err)
                          ELSE IF a.cap_error # NoError
                          THEN [ret |-> "Ok", cap_error |-> a.cap_error,
                                client |-> c, out |-> s.out]
                          ELSE [ret |-> "Ok", cap_error |-> NoError,
                                client |-> [c EXCEPT !.tx_pipe = a.pipe_tx,
                                                     !.rx_pipe = a.pipe_rx,
                                                     !.state = "Subscribed"],
                                out |-> s.out]

\* OctopipesClient::loop_start; n is the handle of the task it would spawn
loop_start_any(c, n) ==
    IF c.state \in {"Subscribed", "Stopped"}
    THEN IF c.rx_pipe = None \/ c.tx_pipe = None
         THEN [ret |-> "Uninitialized", client |-> c, spawn |-> FALSE]
         ELSE [ret |-> "Ok",
               client |-> [c EXCEPT !.state = "Running", !.client_receiver = n,
                                    !.client_loop = n],
               spawn |-> TRUE]
    ELSE IF c.state = "Running"
    THEN [ret |-> "ThreadAlreadyRunning", client |-> c, spawn |-> FALSE]
    ELSE [ret |-> "NotSubscribed", client |-> c, spawn |-> FALSE]

loop_start(c, n) ==
    IF c.state = "Subscribed"
    THEN IF c.rx_pipe = None \/ c.tx_pipe = None
         THEN [ret |-> "Uninitialized", client |-> c, spawn |-> FALSE]
         ELSE [ret |-> "Ok",
               client |-> [c EXCEPT !.state = "Running", !.client_receiver = n,
                                    !.client_loop = n],
               spawn |-> TRUE]
    ELSE IF c.state = "Running"
    THEN [ret |-> "ThreadAlreadyRunning", client |-> c, spawn |-> FALSE]
    ELSE [ret |-> "NotSubscribed", client |-> c, spawn |-> FALSE]

\* OctopipesClient::loop_stop up to its join: the state it sets before it
\* releases the mutex, and whether it goes on to join client_loop
loop_stop_keeps_state(c) ==
    IF c.state = "Running"
    THEN [ret |-> "Ok", client |-> c, join |-> TRUE]
    ELSE [ret |-> "Ok", client |-> c, join |-> FALSE]

loop_stop(c) ==
    IF c.state = "Running"
    THEN [ret |-> "Ok", client |-> [c EXCEPT !.state = "Stopped"], join |-> TRUE]
    ELSE [ret |-> "Ok", client |-> c, join |-> FALSE]

\* OctopipesClient::unsubscribe up to the join of its loop_stop; when there
\* is no join the state is already Unsubscribed
unsubscribe_first_stop(c, wrote) ==
    IF c.state # "Subscribed" /\ c.state # "Running"
    THEN [ret |-> "NotSubscribed", client |-> c, out |-> NoFrame, join |-> FALSE]
    ELSE LET l == loop_stop(c)
             s == send_cap(c, encode_unsubscribe, wrote)
         IN  IF s.ret # "Ok"
             THEN [ret |-> s.ret, client |-> l.client, out |-> s.out,
                   join |-> l.join]
             ELSE IF l.join
             THEN [ret |-> "Ok", client |-> l.client, out |-> s.out,
                   join |-> TRUE]
             ELSE [ret |-> "Ok",
                   client |-> [l.client EXCEPT !.state = "Unsubscribed"],
                   out |-> s.out, join |-> FALSE]

unsubscribe(c, wrote) ==
    IF c.state # "Subscribed" /\ c.state # "Running"
    THEN [ret |-> "NotSubscribed", client |-> c, out |-> NoFrame, join |-> FALSE]
    ELSE LET s == send_cap(c, encode_unsubscribe, wrote)
         IN  IF s.ret # "Ok"
             THEN [ret |-> s.ret, client |-> c, out |-> s.out, join |-> FALSE]
             ELSE LET l == loop_stop(c)
                  IN  IF l.join
                      THEN [ret |-> "Ok", client |-> l.client, out |-> s.out,
                            join |-> TRUE]
                      ELSE [ret |-> "Ok",
                            client |-> [l.client EXCEPT !.state = "Unsubscribed"],
                            out |-> s.out, join |-> FALSE]

\* OctopipesClient::send_ex; wrote tells whether pipe_write succeeded
send_ex_unchecked(c, remote, data, ttl, options, wrote) ==
    IF c.tx_pipe = None
    THEN [ret |-> "NotSubscribed", out |-> NoFrame]
    ELSE IF wrote
    THEN [ret |-> "Ok",
          out |-> Frame(c.tx_pipe,
                        OctopipesMessage_new(c.id, remote, ttl, options, data))]
    ELSE [ret |-> "WriteFailed", out |-> NoFrame]

send_ex(c, remote, data, ttl, options, wrote) ==
    IF c.state # "Running" /\ c.state # "Subscribed"
    THEN [ret |-> "NotSubscribed", out |-> NoFrame]
    ELSE IF c.tx_pipe = None
    THEN [ret |-> "NotSubscribed", out |-> NoFrame]
    ELSE IF wrote
    THEN [ret |-> "Ok",
          out |-> Frame(c.tx_pipe,
                        OctopipesMessage_new(c.id, remote, ttl, options, data))]
    ELSE [ret |-> "WriteFailed", out |-> NoFrame]

\* OctopipesClient::send
send(c, remote, data, wrote) == send_ex(c, remote, data, 0, "empty", wrote)

\* a reader task of the client with its channel: where the task is, its
\* terminate_thread flag, the items sent and not yet received, and whether
\* the receiver still exists. The sender is dropped when the task ends
Reader(pc, terminate, q, rcv) ==
    [pc |-> pc, terminate |-> terminate, q |-> q, rcv |-> rcv]

\* OctopipesClient::get_next_message: [ret, message, q], q being what is
\* left in the channel; disconnected when the sender was dropped
ClientGetNextAnyState(c, q, disconnected) ==
    LET none == OctopipesMessage_new(None, None, 0, "empty", <<>>)
    IN  IF c.client_receiver = 0
        THEN [ret |-> "Uninitialized", message |-> none, q |-> q]
        ELSE IF Len(q) > 0
        THEN IF Head(q).ok
             THEN [ret |-> "Some", message |-> Head(q).msg, q |-> Tail(q)]
             ELSE [ret |-> Head(q).err, message |-> none, q |-> Tail(q)]
        ELSE IF disconnected
        THEN [ret |-> "ThreadError", message |-> none, q |-> q]
        ELSE [ret |-> "None", message |-> none, q |-> q]

ClientGetNext(c, q, disconnected) ==
    LET none == OctopipesMessage_new(None, None, 0, "empty", <<>>)
    IN  IF c.state # "Running"
        THEN [ret |-> "Uninitialized", message |-> none, q |-> q]
        ELSE IF c.client_receiver = 0
        THEN [ret |-> "Uninitialized", message |-> none, q |-> q]
        ELSE IF Len(q) > 0
        THEN IF Head(q).ok
             THEN [ret |-> "Some", message |-> Head(q).msg, q |-> Tail(q)]
             ELSE [ret |-> Head(q).err, message |-> none, q |-> Tail(q)]
        ELSE IF disconnected
        THEN [ret |-> "ThreadError", message |-> none, q |-> q]
        ELSE [ret |-> "None", message |-> none, q |-> q]

\* OctopipesClient::get_all_message: [ret, inbox, q]
RECURSIVE ClientGetAll(_, _, _, _)
ClientGetAll(c, q, disconnected, inbox) ==
    LET r == ClientGetNext(c, q, disconnected)
    IN  IF r.ret = "Some"
        THEN ClientGetAll(c, r.q, disconnected, Append(inbox, r.message))
        ELSE IF r.ret = "None" THEN [ret |-> "Ok", inbox |-> inbox, q |-> r.q]
        ELSE [ret |-> r.ret, inbox |-> <<>>, q |-> r.q]

\* the channel client_receiver refers to
ReceiverQ == IF cl.client_receiver = 0 THEN <<>>
             ELSE readers[cl.client_receiver].q

ReceiverDisconnected ==
    cl.client_receiver # 0 /\ readers[cl.client_receiver].pc = "done"

\* what the client was assigned by the broker
AssignedTx == TxPipe(client_folder, ClientId)

AssignedRx == RxPipe(client_folder, ClientId)

\* what the client may read on the CAP after its Subscription: nothing, an
\* Assignment, an undecodable frame, or a frame of another kind
CapReads ==
    {ReadErr, ReadNone, ReadData(CapErrItem("BadChecksum"))}
    \cup {ReadData(OkItem(CapMessage(None, ClientId, d))) :
            d \in {encode_assignment(NoError, AssignedTx, AssignedRx),
                   encode_assignment(NameAlreadyTaken, None, None),
                   encode_assignment(NoError, None, None),
                   encode_subscribe(<<>>),
                   <<>>}}

\* the remotes, ttls and options the user sends with
SendRemotes == {"c1", "c2"}

SendTtls == {0, 60}

SendOptions == {"empty", "RCK"}

\* what a reader task reads on the RX pipe: nothing, a message (with or
\* without RCK), an undecodable frame, or a read error
RxNone == [kind |-> "None", item |-> ErrItem("Ok")]

RxErr == [kind |-> "Err", item |-> ErrItem("ReadFailed")]

RxData(item) == [kind |-> "Data", item |-> item]

RxReads ==
    {RxNone, RxErr, RxData(ErrItem("BadPacket"))}
    \cup {RxData(OkItem(OctopipesMessage_new("c2", ClientId, 60, o, <<>>))) :
            o \in SendOptions}

\* ------------------------------------------- calls of the client main thread
SetLastWrite(out) == lastWrite' = IF out = NoFrame THEN lastWrite ELSE out

ClientSubscribe ==
    /\ clientPc = "idle"
    /\ \E g \in GroupLists, wrote \in BOOLEAN, reply \in CapReads :
         LET r == subscribe(cl, g, wrote, reply)
         IN  /\ cl' = r.client
             /\ SetLastWrite(r.out)
    /\ UNCHANGED <<readers, clientPc>>
    /\ UNCHANGED <<brokerVars, pw, codecVars, sd, drain>>

\* loop_start: the new task gets a new channel; the receiver of the channel
\* client_receiver held before is dropped with what it still held
ClientLoopStart ==
    /\ clientPc = "idle"
    /\ LET r == loop_start(cl, Len(readers) + 1)
           old == cl.client_receiver
       IN  /\ cl' = r.client
           /\ IF r.spawn
              THEN /\ Len(readers) < MaxReaders
                   /\ readers' =
                        Append([i \in 1..Len(readers) |->
                                   IF i = old
                                   THEN [readers[i] EXCEPT !.rcv = FALSE,
                                                           !.q = <<>>]
                                   ELSE readers[i]],
                               Reader("check", FALSE, <<>>, TRUE))
              ELSE UNCHANGED readers
    /\ UNCHANGED <<clientPc, lastWrite>>
    /\ UNCHANGED <<brokerVars, pw, codecVars, sd, drain>>

ClientLoopStop ==
    /\ clientPc = "idle"
    /\ LET r == loop_stop(cl)
       IN  /\ cl' = r.client
           /\ clientPc' = IF r.join THEN "loop_stop_join" ELSE "idle"
    /\ UNCHANGED <<readers, lastWrite>>
    /\ UNCHANGED <<brokerVars, pw, codecVars, sd, drain>>

ClientUnsubscribe ==
    /\ clientPc = "idle"
    /\ \E wrote \in BOOLEAN :
         LET r == unsubscribe(cl, wrote)
         IN  /\ cl' = r.client
             /\ SetLastWrite(r.out)
             /\ clientPc' = IF r.join THEN "unsubscribe_join" ELSE "idle"
    /\ UNCHANGED readers
    /\ UNCHANGED <<brokerVars, pw, codecVars, sd, drain>>

\* the join of client_loop.take() in loop_stop returns once the task has
\* ended; unsubscribe then sets the state to Unsubscribed
ClientJoin ==
    /\ clientPc \in {"loop_stop_join", "unsubscribe_join"}
    /\ cl.client_loop # 0 => readers[cl.client_loop].pc = "done"
    /\ cl' = [cl EXCEPT
                     !.client_loop = 0,
                     !.state = IF clientPc = "unsubscribe_join"
                               THEN "Unsubscribed" ELSE @]
    /\ clientPc' = "idle"
    /\ UNCHANGED <<readers, lastWrite>>
    /\ UNCHANGED <<brokerVars, pw, codecVars, sd, drain>>

\* send (ttl 0, no options) and send_ex
ClientSend ==
    /\ clientPc = "idle"
    /\ \E remote \in SendRemotes, ttl \in SendTtls, options \in SendOptions,
          wrote \in BOOLEAN :
         SetLastWrite(send_ex(cl, remote, <<>>, ttl, options, wrote).out)
    /\ UNCHANGED <<cl, readers, clientPc>>
    /\ UNCHANGED <<brokerVars, pw, codecVars, sd, drain>>

ClientGetNextMessage ==
    /\ clientPc = "idle"
    /\ LET r == ClientGetNext(cl, ReceiverQ, ReceiverDisconnected)
       IN  readers' = IF cl.client_receiver = 0 THEN readers
                      ELSE [readers EXCEPT ![cl.client_receiver].q = r.q]
    /\ UNCHANGED <<cl, clientPc, lastWrite>>
    /\ UNCHANGED <<brokerVars, pw, codecVars, sd, drain>>

ClientGetAllMessage ==
    /\ clientPc = "idle"
    /\ LET r == ClientGetAll(cl, ReceiverQ, ReceiverDisconnected, <<>>)
       IN  readers' = IF cl.client_receiver = 0 THEN readers
                      ELSE [readers EXCEPT ![cl.client_receiver].q = r.q]
    /\ UNCHANGED <<cl, clientPc, lastWrite>>
    /\ UNCHANGED <<brokerVars, pw, codecVars, sd, drain>>

\* ------------------------------------------- get_all_message, call by call
\* no get_all_message call was made yet
DrainIdle == [taken |-> <<>>, ret |-> "none", inbox |-> <<>>]

\* one iteration of the loop of OctopipesClient::get_all_message on what
\* get_next_message returned: the local inbox, whether the call returns, and
\* what it then returns
get_all_message_step(inbox, r) ==
    IF r.ret = "Some"
    THEN [done |-> FALSE, ret |-> "none", inbox |-> Append(inbox, r.message)]
    ELSE IF r.ret = "None" THEN [done |-> TRUE, ret |-> "Ok", inbox |-> inbox]
    ELSE [done |-> TRUE, ret |-> r.ret, inbox |-> <<>>]

\* the main thread calls get_all_message
ClientGetAllCall ==
    /\ clientPc = "idle"
    /\ clientPc' = "get_all_message"
    /\ drain' = DrainIdle
    /\ UNCHANGED <<cl, readers, lastWrite>>
    /\ UNCHANGED <<brokerVars, pw, codecVars, sd>>

\* one get_next_message of the loop; the reader task may put items in the
\* channel between two of them
ClientGetAllStep ==
    /\ clientPc = "get_all_message"
    /\ LET r == ClientGetNext(cl, ReceiverQ, ReceiverDisconnected)
           g == get_all_message_step(drain.taken, r)
       IN  /\ r.ret = "Some" => Len(drain.taken) < MaxMsgs
           /\ readers' = IF cl.client_receiver = 0 THEN readers
                          ELSE [readers EXCEPT ![cl.client_receiver].q = r.q]
           /\ drain' = IF g.done
                       THEN [drain EXCEPT !.ret = g.ret, !.inbox = g.inbox]
                       ELSE [drain EXCEPT !.taken = g.inbox]
           /\ clientPc' = IF g.done THEN "idle" ELSE "get_all_message"
    /\ UNCHANGED <<cl, lastWrite>>
    /\ UNCHANGED <<brokerVars, pw, codecVars, sd>>

\* ------------------------------------------ subscribe on the broker's CAP
\* another client, c2, writes its Subscription on the CAP FIFO
OtherClientSubscribe ==
    /\ cap_pipe \in fs
    /\ Len(capPipe) + Len(cap_receiver.q) < MaxCap
    /\ capPipe' = Append(capPipe,
                     OkItem(CapMessage("c2", None, encode_subscribe(<<>>))))
    /\ UNCHANGED <<state, cap_listener, listener, cap_receiver, workers, fs,
                   mainPc, pending, sendLog, created, nextSeq, readLog>>
    /\ UNCHANGED <<clientVars, pw, codecVars, sd, drain>>

\* OctopipesClient::subscribe up to its pipe_read: send_cap writes the
\* Subscription on the CAP FIFO; when the write fails subscribe returns
ClientSubscribeWrite ==
    /\ clientPc = "idle"
    /\ \E g \in GroupLists, wrote \in BOOLEAN :
         LET s == send_cap(cl, encode_subscribe(g), wrote)
         IN  /\ wrote => /\ cap_pipe \in fs
                         /\ Len(capPipe) + Len(cap_receiver.q) <= MaxCap
             /\ capPipe' = IF wrote
                           THEN Append(capPipe, OkItem(s.out.msg))
                           ELSE capPipe
             /\ clientPc' = IF wrote THEN "subscribe_read" ELSE "idle"
             /\ SetLastWrite(s.out)
    /\ UNCHANGED <<cl, readers>>
    /\ UNCHANGED <<state, cap_listener, listener, cap_receiver, workers, fs,
                   mainPc, pending, sendLog, created, nextSeq, readLog>>
    /\ UNCHANGED <<pw, codecVars, sd, drain>>

\* the rest of OctopipesClient::subscribe: pipe_read on the CAP returns what
\* the FIFO holds, of which the first frame is decoded
ClientSubscribeRead ==
    /\ clientPc = "subscribe_read"
    /\ LET reply == IF cap_pipe \notin fs THEN ReadErr
                    ELSE IF capPipe = <<>> THEN ReadNone
                    ELSE ReadData(Head(capPipe))
       IN  cl' = subscribe(cl, <<>>, TRUE, reply).client
    /\ capPipe' = <<>>
    /\ clientPc' = "idle"
    /\ UNCHANGED <<readers, lastWrite>>
    /\ UNCHANGED <<state, cap_listener, listener, cap_receiver, workers, fs,
                   mainPc, pending, sendLog, created, nextSeq, readLog>>
    /\ UNCHANGED <<pw, codecVars, sd, drain>>

\* ------------------------------------------------ the client's reader tasks
\* the state check at the top of the loop of reader task i
ReaderCheckAt(i) ==
    /\ i <= Len(readers)
    /\ readers[i].pc = "check"
    /\ readers' = [readers EXCEPT
                      ![i].pc = "read",
                      ![i].terminate = (cl.state # "Running")]
    /\ UNCHANGED <<cl, clientPc, lastWrite>>
    /\ UNCHANGED <<brokerVars, pw, codecVars, sd, drain>>

\* where the task goes at the end of an iteration
AfterIteration(terminate) == IF terminate THEN "done" ELSE "check"

\* the reader task on a decoded message: the calls it makes, in order. A
\* message with RCK is answered by pipe_write of an ACK on the TX pipe, whose
\* result is ignored; then the message is sent on the channel
reader_on_message_send_first(client_id, tx_pipe, message) ==
    LET ack == OctopipesMessage_new(client_id, message.origin, message.ttl,
                                    "ACK", <<>>)
    IN  <<[call |-> "send", item |-> OkItem(message)]>>
        \o (IF message.options = "RCK"
            THEN <<[call |-> "pipe_write", frame |-> Frame(tx_pipe, ack)]>>
            ELSE <<>>)

reader_on_message(client_id, tx_pipe, message) ==
    LET ack == OctopipesMessage_new(client_id, message.origin, message.ttl,
                                    "ACK", <<>>)
    IN  (IF message.options = "RCK"
         THEN <<[call |-> "pipe_write", frame |-> Frame(tx_pipe, ack)]>>
         ELSE <<>>)
        \o <<[call |-> "send", item |-> OkItem(message)]>>

\* the rest of the iteration of reader task i: pipe_read on the RX pipe
\* returns; a message with RCK is acknowledged on the TX pipe; what was read
\* is sent on the channel, and the task ends if the receiver is gone
ReaderReadAt(i) ==
    /\ i <= Len(readers)
    /\ readers[i].pc = "read"
    /\ \E rd \in RxReads, ackWrote \in BOOLEAN :
         LET t == readers[i].terminate
             calls == IF rd.kind = "Data" /\ rd.item.ok
                      THEN reader_on_message(cl.id, cl.tx_pipe, rd.item.msg)
                      ELSE <<[call |-> "send",
                              item |-> IF rd.kind = "Err"
                                       THEN ErrItem("ReadFailed") ELSE rd.item]>>
             writes == {k \in 1..Len(calls) : calls[k].call = "pipe_write"}
             item == calls[CHOOSE k \in 1..Len(calls) : calls[k].call = "send"].item
         IN  /\ lastWrite' =
                   IF writes # {} /\ ackWrote
                   THEN calls[CHOOSE k \in writes : TRUE].frame
                   ELSE lastWrite
             /\ IF rd.kind = "None"
                THEN readers' = [readers EXCEPT ![i].pc = AfterIteration(t)]
                ELSE IF ~readers[i].rcv
                THEN readers' = [readers EXCEPT ![i].pc = "done"]
                ELSE /\ Len(readers[i].q) < MaxClientInbox
                     /\ readers' = [readers EXCEPT
                                       ![i].q = Append(@, item),
                                       ![i].pc = AfterIteration(t)]
    /\ UNCHANGED <<cl, clientPc>>
    /\ UNCHANGED <<brokerVars, pw, codecVars, sd, drain>>

ReaderCheck == \E i \in 1..Len(readers) : ReaderCheckAt(i)

ReaderRead == \E i \in 1..Len(readers) : ReaderReadAt(i)

\* ------------------------------------------------- pipe_write of Worker.send
\* the ttl of an OctopipesMessage is a u8
Ttls == 0..255

\* the largest timeout Worker.send gives pipe_write, in milliseconds
MaxTimeout == 255 * 1000

\* the time one iteration of a loop of pipe_write takes, in milliseconds
Tick == 1000

\* pipe_write is not running
PwIdle ==
    [pc |-> "idle", timeout_millis |-> 0, time_elapsed |-> 0, reader |-> FALSE,
     kind |-> "Other", bytes_written |-> 0, spin |-> 0, ret |-> "None"]

\* t_start.elapsed() one iteration later; past the largest timeout the value
\* no longer matters
Elapsed(t) == IF t + Tick > MaxTimeout THEN MaxTimeout ELSE t + Tick

\* the condition of both loops of pipe_write
PipeWriteGoesOn(p) ==
    p.time_elapsed < p.timeout_millis \/ p.timeout_millis = 0

\* Worker.send calls pipe_write with a timeout of ttl * 1000 ms. reader tells
\* whether a process has the FIFO open for reading during the call, kind is
\* the ErrorKind open_write fails with when none has
PipeWriteCall ==
    /\ pw.pc = "idle"
    /\ \E ttl \in Ttls, reader \in BOOLEAN, kind \in {"Other", "Uncategorized"} :
         pw' = [PwIdle EXCEPT !.pc = "open", !.timeout_millis = ttl * 1000,
                              !.reader = reader, !.kind = kind]
    /\ UNCHANGED <<brokerVars, clientVars, codecVars, sd, drain>>

\* one iteration of the first loop of pipe_write: open_write
PipeWriteOpen ==
    /\ pw.pc = "open"
    /\ IF ~PipeWriteGoesOn(pw)
       THEN pw' = [pw EXCEPT !.pc = "done", !.ret = "WriteZero"]
       ELSE IF pw.reader
       THEN pw' = [pw EXCEPT !.pc = "write"]
       ELSE IF pw.kind = "Other"
       THEN pw' = [pw EXCEPT !.time_elapsed = Elapsed(@), !.spin = 1 - @]
       ELSE pw' = [pw EXCEPT !.pc = "done", !.ret = pw.kind]
    /\ UNCHANGED <<brokerVars, clientVars, codecVars, sd, drain>>

\* one iteration of the second loop of pipe_write: write of the whole buffer,
\* which takes bytes of it or fails
PipeWriteWrite ==
    /\ pw.pc = "write"
    /\ IF ~PipeWriteGoesOn(pw)
       THEN pw' = [pw EXCEPT !.pc = "done",
                             !.ret = IF pw.bytes_written < DataLen
                                     THEN "WriteZero" ELSE "Ok"]
       ELSE \E ok \in BOOLEAN, bytes \in 1..DataLen :
              IF ~ok
              THEN pw' = [pw EXCEPT !.pc = "done", !.ret = "WouldBlock"]
              ELSE LET written == pw.bytes_written + bytes
                   IN  IF written = DataLen
                       THEN pw' = [pw EXCEPT !.pc = "done", !.ret = "Ok",
                                             !.bytes_written = written]
                       ELSE pw' = [pw EXCEPT
                                      !.time_elapsed = Elapsed(@),
                                      !.spin = 1 - @,
                                      !.bytes_written =
                                          IF written > DataLen
                                          THEN DataLen + 1 ELSE written]
    /\ UNCHANGED <<brokerVars, clientVars, codecVars, sd, drain>>

\* pipe_write has returned and Worker.send returns to dispatch_message
PipeWriteReturn ==
    /\ pw.pc = "done"
    /\ pw' = PwIdle
    /\ UNCHANGED <<brokerVars, clientVars, codecVars, sd, drain>>

\* ------------------------------------------------- serializer (byte level)
\* A byte is a number in 0..255, a buffer (Vec<u8>) a sequence of bytes and a
\* String the sequence of its Unicode scalar values. A buffer is indexed from
\* 0 as in the source.
SOH == 1
STX == 2
ETX == 3
MINIMUM_SIZE_VERSION_1 == 17
Version1 == 1

\* OctopipesOptions (bitflags over u8)
RCK == 1
ACK == 2
ICK == 4

\* Option<String>
NoString == [some |-> FALSE, v |-> <<>>]

SomeString(s) == [some |-> TRUE, v |-> s]

\* bit k of a byte, and the bitwise operators of u8 the codec uses
Bit(b, k) == (b \div (2 ^ k)) % 2

And(a, b) ==
    LET x(k) == (Bit(a, k) * Bit(b, k)) * (2 ^ k)
    IN  x(0) + x(1) + x(2) + x(3) + x(4) + x(5) + x(6) + x(7)

\* `n as u8`
as_u8(n) == n % 256

\* the UTF-8 encoding of one scalar value below U+0800
utf8(c) == IF c < 128 THEN <<c>> ELSE <<192 + (c \div 64), 128 + (c % 64)>>

\* String::as_bytes
RECURSIVE as_bytes(_)
as_bytes(s) == IF Len(s) = 0 THEN <<>> ELSE utf8(Head(s)) \o as_bytes(Tail(s))

\* String::len: the number of bytes of the UTF-8 encoding
str_len(s) == Len(as_bytes(s))

\* the String a decoder builds with `push(*byte as char)` for each byte of a
\* slice: the scalar value of each char is the value of the byte
chars_of(bytes) == bytes

\* data.get(i).unwrap() and &data[a..b]; -1 stands for the panic of an access
\* out of range
Fetch(data, i) == IF i < Len(data) THEN data[i + 1] ELSE -1

Slice(data, a, b) == IF a <= b /\ b <= Len(data) THEN SubSeq(data, a + 1, b) ELSE <<-1>>

Panics(bytes) == \E i \in 1..Len(bytes) : bytes[i] = -1

\* OctopipesProtocolVersion::from_u8: the version, or 0 for None
OctopipesProtocolVersion_from_u8_lax(value) == IF value \in {1, 2} THEN Version1 ELSE 0

OctopipesProtocolVersion_from_u8(value) == IF value = 1 THEN Version1 ELSE 0

\* OctopipesOptions::from_u8
OctopipesOptions_from_u8(value) ==
    (IF And(value, RCK) # 0 THEN RCK ELSE 0)
    + (IF And(value, ACK) # 0 THEN ACK ELSE 0)
    + (IF And(value, ICK) # 0 THEN ICK ELSE 0)

\* OctopipesMessage::new with its version
WireMessage(version, origin, remote, ttl, options, data) ==
    [version |-> version, origin |-> origin, remote |-> remote, ttl |-> ttl,
     options |-> options, data |-> data]

\* OctopipesMessage::isset_option
isset_option(message, option) == And(message.options, option) # 0

\* the eight bytes of a payload size, most significant first; the sizes of
\* the model are below 2^24
size_bytes(n) ==
    <<0, 0, 0, 0, 0, (n \div 65536) % 256, (n \div 256) % 256, n % 256>>

\* a u64 of 2^24 or more and below 2^64 - 2^24: larger than every buffer of
\* the model, and no index of the model added to it passes 2^64
Huge == 256 * 65536

\* the u64 the decoder reads from eight bytes. A value below 2^24 is itself;
\* a value 2^64 - k with k in 1..2^24 (its upper five bytes are all 255) is
\* the negative number -k, its two's complement reading, so that an addition
\* modulo 2^64 is the addition of the model; every other value is Huge
data_size_of(b) ==
    IF b[1] = 255 /\ b[2] = 255 /\ b[3] = 255 /\ b[4] = 255 /\ b[5] = 255
    THEN (b[6] * 65536 + b[7] * 256 + b[8]) - Huge
    ELSE IF b[1] # 0 \/ b[2] # 0 \/ b[3] # 0 \/ b[4] # 0 \/ b[5] # 0
    THEN Huge
    ELSE b[6] * 65536 + b[7] * 256 + b[8]

\* `a + (b as usize)` passes 2^64: a is an index, b a u64 as data_size_of
\* gives it
add_overflows(a, b) == b < 0 /\ a + b >= 0

\* the sum modulo 2^64; a sum that stays near 2^64 is, like Huge, larger than
\* every buffer
wrapping_add(a, b) == IF b < 0 /\ a + b < 0 THEN Huge ELSE a + b

\* the length byte and the bytes of an origin or a remote
string_field(s) ==
    IF s.some THEN <<as_u8(str_len(s.v))>> \o as_bytes(s.v) ELSE <<0>>

\* checksum ^ bytes[1] ^ ... ^ bytes[n]: bit k of the result is the parity
\* of the bits k of the operands
xor_all(checksum, bytes) ==
    LET all == <<checksum>> \o bytes
        x(k) == (Cardinality({i \in 1..Len(all) : Bit(all[i], k) = 1}) % 2)
                    * (2 ^ k)
    IN  x(0) + x(1) + x(2) + x(3) + x(4) + x(5) + x(6) + x(7)

\* serializer::calculate_checksum
calculate_checksum(message) ==
    xor_all(SOH,
            <<message.version>>
            \o string_field(message.origin)
            \o string_field(message.remote)
            \o <<message.ttl>>
            \o size_bytes(Len(message.data))
            \o <<message.options, STX>>
            \o message.data
            \o <<ETX>>)

\* serializer::encode_message
encode_message(message) ==
    <<SOH, message.version>>
    \o string_field(message.origin)
    \o string_field(message.remote)
    \o <<message.ttl>>
    \o size_bytes(Len(message.data))
    \o <<message.options>>
    \o <<IF ~isset_option(message, ICK) THEN calculate_checksum(message) ELSE 0>>
    \o <<STX>>
    \o message.data
    \o <<ETX>>

\* what decode_message returns: err is "Ok", an OctopipesError, or "Panic"
Decoded(err, message) == [err |-> err, message |-> message]

NoMessage == WireMessage(0, NoString, NoString, 0, 0, <<>>)

\* `final_index >= data.len()`: the payload and its ETX do not fit
DataDoesNotFit_loose(final_index, len) == final_index > len

DataDoesNotFit(final_index, len) == final_index >= len

\* the end of decode_message, from the STX on: curr_index is the index of the
\* STX. `curr_index + (data_size as usize)` panics when it passes 2^64 in a
\* build with overflow checks and wraps in a build without them;
\* Vec::with_capacity panics on a capacity above isize::MAX
decode_body(data, version, origin, remote, ttl, data_size, options, checksum, curr_index) ==
    IF Fetch(data, curr_index) = -1 THEN Decoded("Panic", NoMessage)
    ELSE IF Fetch(data, curr_index) # STX THEN Decoded("BadPacket", NoMessage)
    ELSE LET first == curr_index + 1
             final_index == wrapping_add(first, data_size)
         IN  IF add_overflows(first, data_size) /\ wire.overflow_checks
             THEN Decoded("Panic", NoMessage)
             ELSE IF DataDoesNotFit(final_index, Len(data))
             THEN Decoded("BadPacket", NoMessage)
             ELSE IF Fetch(data, final_index) = -1
             THEN Decoded("Panic", NoMessage)
             ELSE IF Fetch(data, final_index) # ETX
             THEN Decoded("BadPacket", NoMessage)
             ELSE IF data_size < 0
             THEN Decoded("Panic", NoMessage)
             ELSE LET message == WireMessage(version, origin, remote, ttl,
                                     options, Slice(data, first, final_index))
                  IN  IF /\ ~isset_option(message, ICK)
                         /\ checksum # calculate_checksum(message)
                      THEN Decoded("BadChecksum", NoMessage)
                      ELSE Decoded("Ok", message)

\* the header of a Version1 packet, from the origin size on
decode_version1(data, version) ==
    IF Len(data) < MINIMUM_SIZE_VERSION_1 THEN Decoded("BadPacket", NoMessage)
    ELSE
    LET origin_size == Fetch(data, 2)
        origin_at == 3
        origin_end == origin_at + origin_size
    IN  IF origin_size = -1 THEN Decoded("Panic", NoMessage)
        ELSE IF Len(data) < MINIMUM_SIZE_VERSION_1 + origin_size
        THEN Decoded("BadPacket", NoMessage)
        ELSE
        LET origin_bytes == IF origin_size > 0
                            THEN Slice(data, origin_at, origin_end) ELSE <<>>
            origin == IF origin_size > 0
                      THEN SomeString(chars_of(origin_bytes)) ELSE NoString
            remote_size == Fetch(data, origin_end)
            remote_at == origin_end + 1
            remote_end == remote_at + remote_size
        IN  IF Panics(origin_bytes) \/ remote_size = -1
            THEN Decoded("Panic", NoMessage)
            ELSE IF Len(data) < MINIMUM_SIZE_VERSION_1 + origin_size + remote_size
            THEN Decoded("BadPacket", NoMessage)
            ELSE
            LET remote_bytes == IF remote_size > 0
                                THEN Slice(data, remote_at, remote_end)
                                ELSE <<>>
                remote == IF remote_size > 0
                          THEN SomeString(chars_of(remote_bytes)) ELSE NoString
                ttl == Fetch(data, remote_end)
                size_at == remote_end + 1
                size == Slice(data, size_at, size_at + 8)
                options_at == size_at + 8
                options_byte == Fetch(data, options_at)
                checksum == Fetch(data, options_at + 1)
            IN  IF \/ Panics(remote_bytes) \/ Panics(size)
                   \/ ttl = -1 \/ options_byte = -1 \/ checksum = -1
                THEN Decoded("Panic", NoMessage)
                ELSE decode_body(data, version, origin, remote, ttl,
                                 data_size_of(size),
                                 OctopipesOptions_from_u8(options_byte),
                                 checksum, options_at + 2)

\* serializer::decode_message
decode_message(data) ==
    IF Len(data) < 2 THEN Decoded("BadPacket", NoMessage)
    ELSE IF Fetch(data, 0) # SOH THEN Decoded("BadPacket", NoMessage)
    ELSE LET version == OctopipesProtocolVersion_from_u8(Fetch(data, 1))
         IN  IF version = 0 THEN Decoded("UnsupportedVersion", NoMessage)
             ELSE decode_version1(data, version)

\* ---------------------------------------------- frames on a pipe (inputs)
\* the Strings of at most n chars over a set of scalar values
Strings(chars, n) == UNION {[1..k -> chars] : k \in 0..n}

\* 'A' and U+00E9 for an origin, 'B' for a remote
OriginChars == {65, 233}

RemoteChars == {66}

PayloadBytes == {1, 3}

WireOrigins ==
    {NoString} \cup {SomeString(s) : s \in Strings(OriginChars, MaxStrLen)}

WireRemotes ==
    {NoString} \cup {SomeString(s) : s \in Strings(RemoteChars, MaxStrLen)}

WireTtls == {0, 255}

WireOptions == {0, RCK, RCK + ACK, ICK}

WireMessages ==
    {WireMessage(Version1, o, r, t, p, d) :
        o \in WireOrigins, r \in WireRemotes, t \in WireTtls,
        p \in WireOptions, d \in Strings(PayloadBytes, MaxPayload)}

\* version bytes a damaged frame may carry
OtherVersions == {0, 2, 255}

\* what happened to a frame between its writer and its reader
Tamper(kind, at) == [kind |-> kind, at |-> at]

Untouched == Tamper("none", 0)

\* no frame is on its way
WireIdle ==
    [pc |-> "idle", message |-> NoMessage, frame |-> <<>>, tamper |-> Untouched,
     result |-> Decoded("None", NoMessage), overflow_checks |-> TRUE]

\* the index of the checksum byte of an encoded frame
checksum_index(message) ==
    2 + Len(string_field(message.origin)) + Len(string_field(message.remote))
      + 1 + 8 + 1

\* data with bit k of its byte i flipped
FlipBit(data, i, k) ==
    [data EXCEPT ![i + 1] = IF Bit(@, k) = 1 THEN @ - 2 ^ k ELSE @ + 2 ^ k]

\* a writer encodes a message and writes the frame
WireEncode ==
    /\ wire.pc = "idle"
    /\ \E message \in WireMessages :
         wire' = [WireIdle EXCEPT !.pc = "written", !.message = message,
                                  !.frame = encode_message(message)]
    /\ UNCHANGED <<brokerVars, clientVars, pw, capw, sd, drain>>

\* one bit of the frame is flipped on the way
WireFlipBit ==
    /\ wire.pc = "written"
    /\ wire.tamper = Untouched
    /\ \E i \in 0..(Len(wire.frame) - 1), k \in 0..7 :
         wire' = [wire EXCEPT !.frame = FlipBit(@, i, k),
                              !.tamper = Tamper("flip", i)]
    /\ UNCHANGED <<brokerVars, clientVars, pw, capw, sd, drain>>

\* the reader gets a proper prefix of the frame
WireTruncate ==
    /\ wire.pc = "written"
    /\ wire.tamper = Untouched
    /\ \E n \in 0..(Len(wire.frame) - 1) :
         wire' = [wire EXCEPT !.frame = SubSeq(@, 1, n),
                              !.tamper = Tamper("truncate", n)]
    /\ UNCHANGED <<brokerVars, clientVars, pw, capw, sd, drain>>

\* the version byte of the frame is replaced
WireSetVersion ==
    /\ wire.pc = "written"
    /\ wire.tamper = Untouched
    /\ \E v \in OtherVersions :
         wire' = [wire EXCEPT !.frame = [@ EXCEPT ![2] = v],
                              !.tamper = Tamper("version", 1)]
    /\ UNCHANGED <<brokerVars, clientVars, pw, capw, sd, drain>>

\* the read returns the frame together with the first byte of what was
\* written after it
WireAppend ==
    /\ wire.pc = "written"
    /\ wire.tamper = Untouched
    /\ \E b \in {0, SOH} :
         wire' = [wire EXCEPT !.frame = Append(@, b),
                              !.tamper = Tamper("append", Len(wire.frame))]
    /\ UNCHANGED <<brokerVars, clientVars, pw, capw, sd, drain>>

\* the index of the first byte of the data size of an encoded frame
size_index(message) == checksum_index(message) - 9

\* data with the eight bytes from index i on replaced by field
SetField(data, i, field) ==
    [j \in 1..Len(data) |->
        IF j > i /\ j <= i + 8 THEN field[j - i] ELSE data[j]]

\* the u64 2^64 - k as eight bytes, for k in 1..255
top_bytes(k) == <<255, 255, 255, 255, 255, 255, 255, 256 - k>>

\* data sizes a frame can declare: the small ones, 2^24, 2^63, and the last
\* MaxTop values of a u64
SizeFields ==
    {size_bytes(n) : n \in 0..(MaxPayload + 2)}
        \cup {<<0, 0, 0, 0, 1, 0, 0, 0>>, <<128, 0, 0, 0, 0, 0, 0, 0>>}
        \cup {top_bytes(k) : k \in 1..MaxTop}

\* the frame declares another data size; the reader's build checks the
\* overflow of its additions or not (a setting that matters to no other
\* frame of the model: only a size with its upper 40 bits set overflows)
WireSetDataSize ==
    /\ wire.pc = "written"
    /\ wire.tamper = Untouched
    /\ \E field \in SizeFields, checks \in BOOLEAN :
         /\ field # size_bytes(Len(wire.message.data))
         /\ wire' = [wire EXCEPT
                !.frame = SetField(@, size_index(wire.message), field),
                !.tamper = Tamper("size", size_index(wire.message)),
                !.overflow_checks = checks]
    /\ UNCHANGED <<brokerVars, clientVars, pw, capw, sd, drain>>

\* the reader decodes what it read
WireDecode ==
    /\ wire.pc = "written"
    /\ wire' = [wire EXCEPT !.pc = "decoded",
                            !.result = decode_message(wire.frame)]
    /\ UNCHANGED <<brokerVars, clientVars, pw, capw, sd, drain>>

WireDone ==
    /\ wire.pc = "decoded"
    /\ wire' = WireIdle
    /\ UNCHANGED <<brokerVars, clientVars, pw, capw, sd, drain>>

\* ------------------------------------------------ CAP payloads (byte level)
\* cap::encode_subscribe, on bytes
cap_encode_subscribe(groups) ==
    LET RECURSIVE each(_)
        each(gs) == IF Len(gs) = 0 THEN <<>>
                    ELSE <<as_u8(str_len(Head(gs)))>> \o as_bytes(Head(gs))
                         \o each(Tail(gs))
    IN  <<Subscription, as_u8(Len(groups))>> \o each(groups)

\* cap::encode_assignment, on bytes
cap_encode_assignment(error, tx_pipe, rx_pipe) ==
    IF tx_pipe.some /\ rx_pipe.some
    THEN <<Assignment, error>>
         \o <<as_u8(str_len(tx_pipe.v))>> \o as_bytes(tx_pipe.v)
         \o <<as_u8(str_len(rx_pipe.v))>> \o as_bytes(rx_pipe.v)
    ELSE <<Assignment, error>>

\* cap::encode_unsubscribe, on bytes
cap_encode_unsubscribe == <<Unsubscription>>

\* what a CAP decoder returns: err is "Ok", an OctopipesError, or "Panic"
CapDecoded(err, groups, cap_error, pipe_tx, pipe_rx) ==
    [err |-> err, groups |-> groups, cap_error |-> cap_error,
     pipe_tx |-> pipe_tx, pipe_rx |-> pipe_rx]

CapFailed(err) == CapDecoded(err, <<>>, NoError, NoString, NoString)

\* the loop of cap::decode_subscribe: one group per iteration
RECURSIVE parse_groups(_, _, _, _)
parse_groups(data, index, groups, groups_amount) ==
    IF ~(index < Len(data) /\ Len(groups) < groups_amount)
    THEN [panic |-> FALSE, groups |-> groups]
    ELSE LET group_size == data[index + 1]
             final_index == index + 1 + group_size
             bytes == Slice(data, index + 1, final_index)
         IN  IF Panics(bytes)
             THEN [panic |-> TRUE, groups |-> groups]
             ELSE parse_groups(data, final_index,
                               Append(groups, chars_of(bytes)), groups_amount)

\* cap::decode_subscribe, on bytes
cap_decode_subscribe(data) ==
    IF Len(data) < 2 THEN CapFailed("BadPacket")
    ELSE IF Fetch(data, 0) # Subscription THEN CapFailed("BadPacket")
    ELSE LET groups_amount == Fetch(data, 1)
             p == parse_groups(data, 2, <<>>, groups_amount)
         IN  IF p.panic THEN CapFailed("Panic")
             ELSE IF Len(p.groups) # groups_amount THEN CapFailed("BadPacket")
             ELSE CapDecoded("Ok", p.groups, NoError, NoString, NoString)

\* OctopipesCapError::from_u8: is the byte a CAP error
OctopipesCapError_from_u8(value) ==
    value \in {NoError, NameAlreadyTaken, FileSystemError}

\* cap::decode_assignment, on bytes
cap_decode_assignment(data) ==
    IF Len(data) < 2 THEN CapFailed("BadPacket")
    ELSE IF Fetch(data, 0) # Assignment THEN CapFailed("BadPacket")
    ELSE IF ~OctopipesCapError_from_u8(Fetch(data, 1))
    THEN CapFailed("BadPacket")
    ELSE IF Fetch(data, 1) # NoError
    THEN CapDecoded("Ok", <<>>, Fetch(data, 1), NoString, NoString)
    ELSE IF Len(data) < 4 THEN CapFailed("BadPacket")
    ELSE
    LET pipe_tx_length == Fetch(data, 2)
        tx_end == 3 + pipe_tx_length
    IN  IF Len(data) < 4 + pipe_tx_length
        THEN CapFailed("BadPacket")
        ELSE IF tx_end > Len(data) THEN CapFailed("BadPacket")
        ELSE IF tx_end >= Len(data) THEN CapFailed("BadPacket")
        ELSE
        LET pipe_tx == chars_of(Slice(data, 3, tx_end))
            pipe_rx_length == Fetch(data, tx_end)
            rx_end == tx_end + 1 + pipe_rx_length
        IN  IF rx_end > Len(data) THEN CapFailed("BadPacket")
            ELSE CapDecoded("Ok", <<>>, NoError, SomeString(pipe_tx),
                     SomeString(chars_of(Slice(data, tx_end + 1, rx_end))))

\* cap::decode_unsubscribe, on bytes
cap_decode_unsubscribe(data) ==
    IF Len(data) < 1 THEN CapFailed("BadPacket")
    ELSE IF Fetch(data, 0) # Unsubscription THEN CapFailed("BadPacket")
    ELSE CapDecoded("Ok", <<>>, NoError, NoString, NoString)

\* ------------------------------------------------ CAP payloads (inputs)
\* names of groups and paths of pipes over 'A' and U+00E9
CapNames == Strings(OriginChars, MaxStrLen)

\* the group lists of at most MaxGroups names
CapGroupLists == UNION {[1..k -> CapNames] : k \in 0..MaxGroups}

CapPaths == {NoString} \cup {SomeString(s) : s \in CapNames}

CapErrors == {NoError, NameAlreadyTaken, FileSystemError}

CapDecoders == {"subscribe", "assignment", "unsubscribe"}

\* the type byte of the payloads a decoder is made for
TypeOf(decoder) ==
    IF decoder = "subscribe" THEN Subscription
    ELSE IF decoder = "assignment" THEN Assignment
    ELSE Unsubscription

\* no payload is on its way
CapIdle ==
    [pc |-> "idle", kind |-> "none", groups |-> <<>>, error |-> NoError,
     tx_pipe |-> NoString, rx_pipe |-> NoString, payload |-> <<>>,
     tamper |-> Untouched, decoder |-> "none", result |-> CapFailed("None")]

CapEncodeSubscribe ==
    /\ capw.pc = "idle"
    /\ \E groups \in CapGroupLists :
         capw' = [CapIdle EXCEPT !.pc = "written", !.kind = "subscribe",
                                 !.groups = groups,
                                 !.payload = cap_encode_subscribe(groups)]
    /\ UNCHANGED <<brokerVars, clientVars, pw, wire, sd, drain>>

CapEncodeAssignment ==
    /\ capw.pc = "idle"
    /\ \E error \in CapErrors, tx_pipe \in CapPaths, rx_pipe \in CapPaths :
         capw' = [CapIdle EXCEPT
                     !.pc = "written", !.kind = "assignment", !.error = error,
                     !.tx_pipe = tx_pipe, !.rx_pipe = rx_pipe,
                     !.payload = cap_encode_assignment(error, tx_pipe, rx_pipe)]
    /\ UNCHANGED <<brokerVars, clientVars, pw, wire, sd, drain>>

CapEncodeUnsubscribe ==
    /\ capw.pc = "idle"
    /\ capw' = [CapIdle EXCEPT !.pc = "written", !.kind = "unsubscribe",
                               !.payload = cap_encode_unsubscribe]
    /\ UNCHANGED <<brokerVars, clientVars, pw, wire, sd, drain>>

\* the reader gets a proper prefix of the payload
CapTruncate ==
    /\ capw.pc = "written"
    /\ capw.tamper = Untouched
    /\ \E n \in 0..(Len(capw.payload) - 1) :
         capw' = [capw EXCEPT !.payload = SubSeq(@, 1, n),
                              !.tamper = Tamper("truncate", n)]
    /\ UNCHANGED <<brokerVars, clientVars, pw, wire, sd, drain>>

\* the payload is handed to one of the decoders
CapDecode ==
    /\ capw.pc = "written"
    /\ \E decoder \in CapDecoders :
         capw' = [capw EXCEPT
                     !.pc = "decoded", !.decoder = decoder,
                     !.result = IF decoder = "subscribe"
                                THEN cap_decode_subscribe(capw.payload)
                                ELSE IF decoder = "assignment"
                                THEN cap_decode_assignment(capw.payload)
                                ELSE cap_decode_unsubscribe(capw.payload)]
    /\ UNCHANGED <<brokerVars, clientVars, pw, wire, sd, drain>>

CapDone ==
    /\ capw.pc = "decoded"
    /\ capw' = CapIdle
    /\ UNCHANGED <<brokerVars, clientVars, pw, wire, sd, drain>>

\* ------------------------------------------------------ the shutdown paths
\* The threads of a broker around stop_server, step by step: the main thread
\* in stop_server, stop_worker and stop_cap_listener, the CAP listener task
\* and the reader task of each worker, with the owner of the mutex of
\* OctopipesServer.state and of each worker_active
Free == "none"

SdIdle ==
    [pc |-> "idle", k |-> 0, n |-> 0, ret |-> "none", state |-> "Initialized",
     state_lock |-> Free, listener |-> "none", active |-> <<>>,
     active_lock |-> <<>>, reader |-> <<>>, terminate |-> <<>>,
     worker_loop |-> <<>>]

\* what is left alone by a step on sd
SdOnly == UNCHANGED <<brokerVars, clientVars, pw, codecVars, drain>>

\* start_cap_listener and start_worker have run: the listener task and the
\* reader tasks of n workers are at the top of their loops
SdStart ==
    /\ sd.pc = "idle"
    /\ \E n \in 0..ShutWorkers :
         sd' = [SdIdle EXCEPT
                   !.pc = "serving", !.n = n, !.state = "Running",
                   !.listener = "lock",
                   !.active = [i \in 1..n |-> TRUE],
                   !.active_lock = [i \in 1..n |-> Free],
                   !.reader = [i \in 1..n |-> "lock"],
                   !.terminate = [i \in 1..n |-> FALSE],
                   !.worker_loop = [i \in 1..n |-> TRUE]]
    /\ SdOnly

\* write_cap: lock_cap, and after the write unlock_cap
SdLockCap ==
    /\ sd.pc = "serving"
    /\ sd.state_lock = Free
    /\ sd' = [sd EXCEPT !.pc = "write_cap", !.state = lock_cap(sd.state)]
    /\ SdOnly

SdUnlockCap ==
    /\ sd.pc = "write_cap"
    /\ sd.state_lock = Free
    /\ sd' = [sd EXCEPT !.pc = "serving", !.state = unlock_cap(sd.state)]
    /\ SdOnly

\* the main thread calls stop_server
SdStopServer ==
    /\ sd.pc \in {"serving", "returned"}
    /\ sd' = [sd EXCEPT !.pc = "stop_server", !.ret = "none"]
    /\ SdOnly

\* where stop_server goes when worker k is the next one to stop
AfterWorker(k, n) == IF k > n THEN "stop_cap_listener" ELSE "stop_worker"

\* stop_server: the state check in its first block
SdStopServerCheck ==
    /\ sd.pc = "stop_server"
    /\ sd.state_lock = Free
    /\ sd' = IF StopServerReturnsEarly(sd.state)
             THEN [sd EXCEPT !.pc = "returned", !.ret = "Ok"]
             ELSE [sd EXCEPT !.pc = AfterWorker(1, sd.n), !.k = 1]
    /\ SdOnly

\* OctopipesServerWorker::stop_worker, its first block: the mutex of
\* worker_active is taken, the flag is cleared and the mutex is released at
\* the end of the block; join tells whether worker_loop holds a handle
stop_worker_keeps_lock(worker_loop) ==
    [active |-> FALSE, owner |-> "main",
     pc |-> IF worker_loop THEN "join_worker" ELSE "returned",
     ret |-> IF worker_loop THEN "none" ELSE "WorkerNotRunning"]

stop_worker_flag(worker_loop) ==
    [active |-> FALSE, owner |-> Free,
     pc |-> IF worker_loop THEN "join_worker" ELSE "returned",
     ret |-> IF worker_loop THEN "none" ELSE "WorkerNotRunning"]

SdStopWorker ==
    /\ sd.pc = "stop_worker"
    /\ sd.active_lock[sd.k] = Free
    /\ LET r == stop_worker_flag(sd.worker_loop[sd.k])
       IN  sd' = [sd EXCEPT !.active[sd.k] = r.active,
                            !.active_lock[sd.k] = r.owner,
                            !.pc = r.pc, !.ret = r.ret]
    /\ SdOnly

\* stop_worker: the join of the reader task returns when the task has ended
SdJoinWorker ==
    /\ sd.pc = "join_worker"
    /\ sd.reader[sd.k] = "done"
    /\ sd' = [sd EXCEPT !.worker_loop[sd.k] = FALSE,
                        !.k = sd.k + 1,
                        !.pc = AfterWorker(sd.k + 1, sd.n)]
    /\ SdOnly

\* OctopipesServer::stop_cap_listener: the mutex of the state is taken
SdStopCapListenerLock ==
    /\ sd.pc = "stop_cap_listener"
    /\ sd.state_lock = Free
    /\ sd' = [sd EXCEPT !.pc = "stop_cap_listener_locked", !.state_lock = "main"]
    /\ SdOnly

\* stop_cap_listener with the mutex held: in Running the state is set to
\* Stopped and the guard is dropped before the join; in any other state it
\* returns, which drops the guard
stop_cap_listener_keeps_lock(st) ==
    IF st = "Running"
    THEN [state |-> "Stopped", owner |-> "main", join |-> TRUE]
    ELSE [state |-> st, owner |-> Free, join |-> FALSE]

stop_cap_listener_locked(st) ==
    IF st = "Running"
    THEN [state |-> "Stopped", owner |-> Free, join |-> TRUE]
    ELSE [state |-> st, owner |-> Free, join |-> FALSE]

SdStopCapListenerSet ==
    /\ sd.pc = "stop_cap_listener_locked"
    /\ LET r == stop_cap_listener_locked(sd.state)
       IN  sd' = [sd EXCEPT !.state = r.state, !.state_lock = r.owner,
                            !.pc = IF r.join THEN "join_listener" ELSE "returned",
                            !.ret = IF r.join THEN "none" ELSE "Ok"]
    /\ SdOnly

\* stop_cap_listener: the join returns when the listener task has ended
SdJoinListener ==
    /\ sd.pc = "join_listener"
    /\ sd.listener = "done"
    /\ sd' = [sd EXCEPT !.listener = "joined", !.pc = "returned", !.ret = "Ok"]
    /\ SdOnly

\* the CAP listener task takes the mutex of the state
SdListenerLock ==
    /\ sd.listener = "lock"
    /\ sd.state_lock = Free
    /\ sd' = [sd EXCEPT !.listener = "locked", !.state_lock = "listener"]
    /\ SdOnly

\* where the listener task goes with the state it sees: in Block it sleeps
\* and checks again, in Running it reads the CAP, otherwise it ends
listener_on_state(st) ==
    IF st = "Block" THEN "lock" ELSE IF st = "Running" THEN "read" ELSE "done"

SdListenerCheck ==
    /\ sd.listener = "locked"
    /\ sd' = [sd EXCEPT !.listener = listener_on_state(sd.state),
                        !.state_lock = Free]
    /\ SdOnly

\* pipe_read of the listener task returns after its 100 ms
SdListenerRead ==
    /\ sd.listener = "read"
    /\ sd' = [sd EXCEPT !.listener = "lock"]
    /\ SdOnly

\* the reader task of worker k takes the mutex of worker_active
SdReaderLockAt(k) ==
    /\ k <= sd.n
    /\ sd.reader[k] = "lock"
    /\ sd.active_lock[k] = Free
    /\ sd' = [sd EXCEPT !.reader[k] = "locked", !.active_lock[k] = "reader"]
    /\ SdOnly

\* it sets terminate_thread if the flag is cleared, and releases the mutex
SdReaderCheckAt(k) ==
    /\ k <= sd.n
    /\ sd.reader[k] = "locked"
    /\ sd' = [sd EXCEPT !.reader[k] = "read",
                        !.terminate[k] = ~sd.active[k],
                        !.active_lock[k] = Free]
    /\ SdOnly

\* pipe_read of the reader task returns after its 500 ms, the item is sent
\* and the loop ends if terminate_thread is set
SdReaderReadAt(k) ==
    /\ k <= sd.n
    /\ sd.reader[k] = "read"
    /\ sd' = [sd EXCEPT !.reader[k] = IF sd.terminate[k] THEN "done" ELSE "lock"]
    /\ SdOnly

SdReaderLock == \E k \in 1..ShutWorkers : SdReaderLockAt(k)

SdReaderCheck == \E k \in 1..ShutWorkers : SdReaderCheckAt(k)

SdReaderRead == \E k \in 1..ShutWorkers : SdReaderReadAt(k)

\* -------------------------------------------------------------------- Init
Init ==
    /\ state = "Initialized"
    /\ cap_listener = FALSE
    /\ listener = "none"
    /\ cap_receiver = [some |-> FALSE, q |-> <<>>]
    /\ capPipe = <<>>
    /\ workers = <<>>
    /\ fs = {}
    /\ mainPc = "idle"
    /\ pending = <<>>
    /\ sendLog = <<>>
    /\ created = {}
    /\ nextSeq = 1
    /\ readLog = <<>>
    /\ cl = OctopipesClient_new(ClientId)
    /\ readers = <<>>
    /\ clientPc = "idle"
    /\ lastWrite = NoFrame
    /\ pw = PwIdle
    /\ wire = WireIdle
    /\ capw = CapIdle
    /\ sd = SdIdle
    /\ drain = DrainIdle

\* ---------------------------------------------------------- specifications
\* the whole broker
Next ==
    \/ StartCapListener
    \/ ClientGetAllCall
    \/ ClientGetAllStep
    \/ SdStart
    \/ SdLockCap
    \/ SdUnlockCap
    \/ SdStopServer
    \/ SdStopServerCheck
    \/ SdStopWorker
    \/ SdJoinWorker
    \/ SdStopCapListenerLock
    \/ SdStopCapListenerSet
    \/ SdJoinListener
    \/ SdListenerLock
    \/ SdListenerCheck
    \/ SdListenerRead
    \/ SdReaderLock
    \/ SdReaderCheck
    \/ SdReaderRead
    \/ OtherClientSubscribe
    \/ ClientSubscribeWrite
    \/ ClientSubscribeRead
    \/ StopCapListener
    \/ JoinListener
    \/ StopServer
    \/ ManageCapMessage
    \/ CapWrite
    \/ ProcessCapOnce
    \/ StartWorker
    \/ StopWorker
    \/ ProcessFirst
    \/ ProcessOnce
    \/ ProcessAll
    \/ ListenerCheck
    \/ ListenerRead
    \/ WorkerRead
    \/ ClientWriteCap
    \/ ClientReadCap
    \/ ClientSubscribe
    \/ ClientLoopStart
    \/ ClientLoopStop
    \/ ClientUnsubscribe
    \/ ClientJoin
    \/ ClientSend
    \/ ClientGetNextMessage
    \/ ClientGetAllMessage
    \/ ReaderCheck
    \/ ReaderRead
    \/ PipeWriteCall
    \/ PipeWriteOpen
    \/ PipeWriteWrite
    \/ PipeWriteReturn
    \/ WireEncode
    \/ WireFlipBit
    \/ WireTruncate
    \/ WireSetVersion
    \/ WireAppend
    \/ WireSetDataSize
    \/ WireDecode
    \/ WireDone
    \/ CapEncodeSubscribe
    \/ CapEncodeAssignment
    \/ CapEncodeUnsubscribe
    \/ CapTruncate
    \/ CapDecode
    \/ CapDone

Spec == Init /\ [][Next]_vars

\* the broker's lifecycle, registry and CAP handling: no message is routed
NextCap ==
    \/ StartCapListener
    \/ StopCapListener
    \/ JoinListener
    \/ StopServer
    \/ ManageCapMessage
    \/ CapWrite
    \/ ProcessCapOnce
    \/ StartWorker
    \/ StopWorker
    \/ ListenerCheck
    \/ ListenerRead
    \/ ClientWriteCap
    \/ ClientReadCap

SpecCap == Init /\ [][NextCap]_vars

\* the routing of the messages the workers read, between
\* the workers started through start_worker
NextRoute ==
    \/ StartCapListener
    \/ StartWorker
    \/ WorkerRead
    \/ ProcessFirst
    \/ ProcessOnce
    \/ ProcessAll

SpecRoute == Init /\ [][NextRoute]_vars

\* one client, with what it reads on the CAP and on its RX pipe
NextClient ==
    \/ ClientSubscribe
    \/ ClientLoopStart
    \/ ClientLoopStop
    \/ ClientUnsubscribe
    \/ ClientJoin
    \/ ClientSend
    \/ ClientGetNextMessage
    \/ ClientGetAllMessage
    \/ ReaderCheck
    \/ ReaderRead

SpecClient == Init /\ [][NextClient]_vars

\* the same, with every thread that can take a step taking one in the end:
\* each reader task, and the main thread waiting in a join
SpecClientLive ==
    /\ Init
    /\ [][NextClient]_vars
    /\ \A i \in 1..MaxReaders :
         WF_vars(ReaderCheckAt(i)) /\ WF_vars(ReaderReadAt(i))
    /\ WF_vars(ClientJoin)

\* the pipe_write calls of Worker.send; the thread in pipe_write keeps
\* running
NextPipe ==
    \/ PipeWriteCall
    \/ PipeWriteOpen
    \/ PipeWriteWrite
    \/ PipeWriteReturn

SpecPipe ==
    /\ Init
    /\ [][NextPipe]_vars
    /\ WF_vars(PipeWriteOpen)
    /\ WF_vars(PipeWriteWrite)
    /\ WF_vars(PipeWriteReturn)

\* message frames: encoded, possibly damaged on the way, decoded
NextWire ==
    \/ WireEncode
    \/ WireFlipBit
    \/ WireTruncate
    \/ WireSetVersion
    \/ WireAppend
    \/ WireSetDataSize
    \/ WireDecode
    \/ WireDone

SpecWire == Init /\ [][NextWire]_vars

\* CAP payloads: encoded, possibly truncated, handed to a decoder
NextCapCodec ==
    \/ CapEncodeSubscribe
    \/ CapEncodeAssignment
    \/ CapEncodeUnsubscribe
    \/ CapTruncate
    \/ CapDecode
    \/ CapDone

SpecCapCodec == Init /\ [][NextCapCodec]_vars

\* two clients subscribing on the CAP of a running broker
NextSubscribe ==
    \/ StartCapListener
    \/ ListenerCheck
    \/ ListenerRead
    \/ ProcessCapOnce
    \/ CapWrite
    \/ OtherClientSubscribe
    \/ ClientSubscribeWrite
    \/ ClientSubscribeRead

SpecSubscribe == Init /\ [][NextSubscribe]_vars

\* the shutdown of a broker. Every thread that can take a step takes one in
\* the end, and a thread waiting for a mutex gets it in the end: no thread
\* holds a mutex across a read, a sleep or a join
NextShutdown ==
    \/ SdStart
    \/ SdLockCap
    \/ SdUnlockCap
    \/ SdStopServer
    \/ SdStopServerCheck
    \/ SdStopWorker
    \/ SdJoinWorker
    \/ SdStopCapListenerLock
    \/ SdStopCapListenerSet
    \/ SdJoinListener
    \/ SdListenerLock
    \/ SdListenerCheck
    \/ SdListenerRead
    \/ SdReaderLock
    \/ SdReaderCheck
    \/ SdReaderRead

SpecShutdown ==
    /\ Init
    /\ [][NextShutdown]_vars
    /\ SF_vars(SdStopServerCheck) /\ SF_vars(SdStopWorker)
    /\ WF_vars(SdJoinWorker) /\ SF_vars(SdStopCapListenerLock)
    /\ WF_vars(SdStopCapListenerSet) /\ WF_vars(SdJoinListener)
    /\ SF_vars(SdListenerLock) /\ WF_vars(SdListenerCheck)
    /\ WF_vars(SdListenerRead)
    /\ \A k \in 1..ShutWorkers :
         /\ SF_vars(SdReaderLockAt(k))
         /\ WF_vars(SdReaderCheckAt(k))
         /\ WF_vars(SdReaderReadAt(k))

\* a Running client that drains its inbox while its reader task fills it
NextInbox ==
    \/ ClientSubscribe
    \/ ClientLoopStart
    \/ ReaderCheck
    \/ ReaderRead
    \/ ClientGetNextMessage
    \/ ClientGetAllCall
    \/ ClientGetAllStep

SpecInbox == Init /\ [][NextInbox]_vars

\* ------------------------------------------------------------------ claims
\* the message is a well-formed Subscription with an origin
IsSubscription(m) ==
    /\ m.origin # None
    /\ Len(m.data) >= 2
    /\ m.data[1] = Subscription
    /\ Len(m.data) = 2 + m.data[2]

Registered(client) == \E i \in 1..Len(workers) : workers[i].client_id = client

Count(seq, x) == Cardinality({k \in 1..Len(seq) : seq[k] = x})

\* C1: in every reachable state no two workers of the registry have the same
\* client_id, whatever manage_cap_message, start_worker and stop_worker calls
\* were made.
C1_UniqueClientId ==
    \A i, j \in 1..Len(workers) :
        workers[i].client_id = workers[j].client_id => i = j

\* two workers are registered and a further Subscription of one of them is
\* being refused
C1_Witness ==
    /\ Len(workers) = 2
    /\ mainPc = "cap_write"
    /\ pending[1].okRet = "WorkerExists"

\* what manage_cap_message does, up to the write, with a Subscription whose
\* origin is already registered
C2_DuplicateHandled ==
    \A m \in CapMessages, fail \in {"none", "rx", "tx"} :
        (IsSubscription(m) /\ Registered(m.origin)) =>
            LET r == manage_cap_message(state, workers, fs, m, fail)
            IN  /\ r.write
                /\ r.data = <<Assignment, NameAlreadyTaken>>
                /\ r.okRet = "WorkerExists"
                /\ r.failRet = "WorkerExists"
                /\ r.workers = workers
                /\ r.fs = fs

\* what the write of that refusal does
C2_DuplicateWritten ==
    (mainPc = "cap_write" /\ pending[1].okRet = "WorkerExists") =>
        /\ workers' = workers
        /\ fs' = fs
        /\ (mainPc' = "idle" /\ capPipe' # capPipe) =>
               capPipe' = Append(capPipe,
                              OkItem(CapMessage(None, pending[1].client,
                                                <<Assignment, NameAlreadyTaken>>)))

\* C2: a Subscription whose origin C is already registered makes
\* manage_cap_message write an Assignment with NameAlreadyTaken and no paths
\* on the CAP, addressed to C, and return WorkerExists whether or not the
\* write succeeds; the registry and the FIFOs are left exactly as they were,
\* by the handler up to the write and by the write itself.
C2_DuplicateRefused == [](C2_DuplicateHandled) /\ [][C2_DuplicateWritten]_vars

\* the refusal of a duplicate Subscription of c1 has been written on the CAP
\* and c1 is still registered
C2_Witness ==
    /\ Registered("c1")
    /\ mainPc = "idle"
    /\ capPipe = <<OkItem(CapMessage(None, "c1", <<Assignment, NameAlreadyTaken>>))>>

\* C3: when every send succeeds, dispatch_message of a message with remote G
\* calls send exactly once on each registered worker whose group list
\* contains G, however often it contains it, and on no other worker; and no
\* message a worker read is sent twice to the same worker.
C3_DispatchExact ==
    /\ \A remote \in Remotes \ {None}, okset \in SUBSET Clients :
         LET d == dispatch_message(workers, Message(None, remote, 0), okset, fs)
         IN  d.ret = "Ok" =>
               /\ \A i \in 1..Len(workers) :
                    Count(d.sends, workers[i].client_id) =
                        IF \E k \in 1..Len(workers[i].groups) :
                               workers[i].groups[k] = remote
                        THEN 1 ELSE 0
               /\ \A k \in 1..Len(d.sends) : Registered(d.sends[k])
    /\ \A a, b \in 1..Len(sendLog) :
         (sendLog[a].to = sendLog[b].to /\ sendLog[a].seq = sendLog[b].seq)
             => a = b

\* a message for c1 was dispatched between a worker that holds c1 twice and
\* a worker that does not hold it: one send, to the first
C3_Witness ==
    /\ Len(workers) = 2
    /\ \E i, j \in 1..2 :
         /\ workers[i].client_id = "c1"
         /\ workers[i].groups = <<"c1", "c1">>
         /\ workers[j].groups = <<>>
    /\ sendLog = <<[to |-> "c1", src |-> "c2", seq |-> 1]>>
    /\ readLog = <<[src |-> "c2", to |-> {"c1"}]>>

\* C4: once the Subscription of C with groups g1..gn is accepted,
\* get_subscriptions(C) is g1..gn followed by C, and a message whose remote
\* is C is sent to the worker of C and to no other worker, whatever the
\* other clients subscribed to.
C4_OwnIdRoutesToOwner ==
    /\ (mainPc = "cap_write" /\ pending[1].okRet = "Subscription") =>
         LET m == pending[1].arg[1]
         IN  get_subscriptions(workers, m.origin, 1) =
                 [some |-> TRUE,
                  groups |-> Append(SubSeq(m.data, 3, Len(m.data)), m.origin)]
    /\ \A i \in 1..Len(workers) :
         LET C == workers[i].client_id
             g == workers[i].groups
         IN  (Len(g) > 0 /\ g[Len(g)] = C) =>
                 dispatch_message(workers, Message(None, C, 0), Clients, fs).sends
                     = <<C>>

\* the step of manage_cap_message that accepts a Subscription
C5_Accepted ==
    (mainPc = "idle" /\ mainPc' = "cap_write"
         /\ pending'[1].okRet = "Subscription") =>
        LET C == pending'[1].arg[1].origin
            tx == client_folder \o "/" \o C \o "_tx.fifo"
            rx == client_folder \o "/" \o C \o "_rx.fifo"
            n == Len(workers)
        IN  /\ pending'[1].client = C
            /\ pending'[1].data = <<Assignment, NoError, tx, rx>>
            /\ ~Registered(C)
            /\ Len(workers') = n + 1
            /\ SubSeq(workers', 1, n) = workers
            /\ workers'[n + 1].client_id = C
            /\ workers'[n + 1].pipe_read = tx
            /\ workers'[n + 1].pipe_write = rx
            /\ {tx, rx} \subseteq fs'

\* the write of the Assignment of an accepted Subscription
C5_Written ==
    (mainPc = "cap_write" /\ pending[1].okRet = "Subscription") =>
        /\ workers' = workers
        /\ (mainPc' = "idle" /\ capPipe' # capPipe) =>
               capPipe' = Append(capPipe,
                              OkItem(CapMessage(None, pending[1].client,
                                                pending[1].data)))

\* C5: an accepted Subscription of C adds exactly one worker, with id C,
\* reading D/C_tx.fifo and writing D/C_rx.fifo, at the end of the registry;
\* the Assignment it writes on the CAP carries NoError and these two paths
\* and is addressed to C.
C5_Assignment == [][C5_Accepted /\ C5_Written]_vars

\* the Assignment of c2 has been written on the CAP and its worker runs
C5_Witness ==
    /\ mainPc = "idle"
    /\ capPipe = <<OkItem(CapMessage(None, "c2",
                     <<Assignment, NoError, "/tmp/clients/c2_tx.fifo",
                       "/tmp/clients/c2_rx.fifo">>))>>
    /\ \E i \in 1..Len(workers) :
         /\ workers[i].client_id = "c2"
         /\ workers[i].pipe_read = "/tmp/clients/c2_tx.fifo"
         /\ workers[i].pipe_write = "/tmp/clients/c2_rx.fifo"

\* C6: whenever the main thread is in write_cap between lock_cap and
\* unlock_cap, the CAP listener task is not in its read of the CAP.
C6_NoReadWhileWriting == ~(mainPc = "cap_write" /\ listener = "read")

\* C7: the server state only changes from Initialized to Running, from
\* Running to Block, from Block to Running and from Running to Stopped.
C7_StateMachine ==
    [][state' # state =>
         <<state, state'>> \in {<<"Initialized", "Running">>,
                                <<"Running", "Block">>,
                                <<"Block", "Running">>,
                                <<"Running", "Stopped">>}]_vars

\* C8: when stop_server returns on a broker that was Running, the CAP FIFO
\* and every client FIFO created since start_cap_listener are gone.
C8_NoFifoLeft ==
    [][(mainPc = "join_listener" /\ pending[1].op = "stop_server"
            /\ mainPc' = "idle")
           => (cap_pipe \notin fs' /\ created' = {})]_vars

\* C9: on a broker that is not Running stop_server returns Ok and leaves
\* the state, the registry and the FIFOs as they are; and whatever the
\* broker's state, a second stop_server changes nothing the first left.
C9_StopServerIdempotent ==
    /\ state # "Running" =>
         stop_server(state, workers, fs) =
             [ret |-> "Ok", state |-> state, workers |-> workers, fs |-> fs,
              join |-> FALSE]
    /\ LET r1 == stop_server(state, workers, fs)
           fs1 == IF r1.join THEN r1.fs \ {cap_pipe} ELSE r1.fs
           r2 == stop_server(r1.state, r1.workers, fs1)
       IN  /\ r2.state = r1.state
           /\ r2.workers = r1.workers
           /\ r2.fs = fs1
           /\ ~r2.join
           /\ r1.ret = "Ok" => r2.ret = "Ok"

\* stop_server has stopped a broker with a worker, which is still in the
\* registry
C9_Witness ==
    /\ state = "Stopped"
    /\ mainPc = "idle"
    /\ \E i \in 1..Len(workers) : ~workers[i].worker_loop

\* C10 as stated: when send is called on R for a message m2 of S, it has
\* been called on R before for every message m1 that S read earlier and
\* that matched R's groups when it was read.
C10_SentBefore ==
    \A b \in 1..Len(sendLog), s1 \in 1..Len(readLog) :
        (s1 < sendLog[b].seq /\ readLog[s1].src = sendLog[b].src
             /\ sendLog[b].to \in readLog[s1].to) =>
            \E a \in 1..(b - 1) :
                sendLog[a] = [to |-> sendLog[b].to, src |-> sendLog[b].src,
                              seq |-> s1]

\* C10 as amended: the send calls made on R for the messages of S are made in
\* the order in which S read them.
C10_SendOrder ==
    \A a, b \in 1..Len(sendLog) :
        (a < b /\ sendLog[a].to = sendLog[b].to
             /\ sendLog[a].src = sendLog[b].src) =>
            sendLog[a].seq < sendLog[b].seq

\* two messages read by c1 have both been sent to c2, in the order read
C10_Witness ==
    \E a, b \in 1..Len(sendLog) :
        /\ a < b
        /\ sendLog[a] = [to |-> "c2", src |-> "c1", seq |-> 1]
        /\ sendLog[b] = [to |-> "c2", src |-> "c1", seq |-> 2]

\* C11: every pipe_write made by Worker.send returns, for every ttl from 0
\* to 255, also when no process ever opens the FIFO for reading.
C11_SendTerminates == (pw.pc = "open" /\ ~pw.reader) ~> (pw.pc = "done")

\* C12: the broker never removes the worker of a client W while the inbox of
\* that worker still holds a message of W that another registered worker is
\* subscribed to: an Unsubscription from W handled then leaves W registered.
C12_NoRemovalWhileUndispatched ==
    \A i \in 1..Len(workers) :
        LET W == workers[i].client_id
            undispatched ==
                \E k \in 1..Len(workers[i].inbox), j \in 1..Len(workers) :
                    /\ workers[i].inbox[k].ok
                    /\ j # i
                    /\ workers[j].worker_loop
                    /\ Contains(workers[j].groups,
                                workers[i].inbox[k].msg.remote)
            r == manage_cap_message(state, workers, fs,
                                    CapMessage(W, None, <<Unsubscription>>),
                                    "none")
        IN  undispatched =>
                \E j \in 1..Len(r.workers) : r.workers[j].client_id = W

\* C13: called in Subscribed, Running or Stopped, subscribe writes nothing
\* on the CAP and leaves the client's state and pipe paths as they are.
C13_SubscribeOnlyWhenUnsubscribed ==
    cl.state \in {"Subscribed", "Running", "Stopped"} =>
        \A g \in GroupLists, wrote \in BOOLEAN, reply \in CapReads :
            LET r == subscribe(cl, g, wrote, reply)
            IN  r.out = NoFrame /\ r.client = cl

\* the reply is a well-formed Assignment carrying NoError and two paths
IsAcceptance(reply) ==
    /\ reply.kind = "Data"
    /\ reply.item.ok
    /\ Len(reply.item.msg.data) = 4
    /\ reply.item.msg.data[1] = Assignment
    /\ reply.item.msg.data[2] = NoError

\* the reply is a well-formed Assignment carrying a CAP error
IsRefusal(reply) ==
    /\ reply.kind = "Data"
    /\ reply.item.ok
    /\ Len(reply.item.msg.data) = 2
    /\ reply.item.msg.data[1] = Assignment
    /\ reply.item.msg.data[2] \in {NameAlreadyTaken, FileSystemError}

\* C14: subscribe sets the state to Subscribed and records the two paths of
\* the reply exactly when its write succeeded and the reply is an Assignment
\* with NoError; otherwise the client is unchanged and the call returns the
\* CAP error of the Assignment, BadPacket for a reply of another CAP type,
\* NoDataAvailable for an empty read, ReadFailed for a failed read and
\* WriteFailed for a failed write.
C14_SubscribedIffNoError ==
    \A g \in GroupLists, wrote \in BOOLEAN, reply \in CapReads :
        LET r == subscribe(cl, g, wrote, reply)
        IN  IF wrote /\ IsAcceptance(reply)
            THEN /\ r.ret = "Ok"
                 /\ r.cap_error = NoError
                 /\ r.client.state = "Subscribed"
                 /\ r.client.tx_pipe = reply.item.msg.data[3]
                 /\ r.client.rx_pipe = reply.item.msg.data[4]
                 /\ r.client.tx_pipe # None
                 /\ r.client.rx_pipe # None
            ELSE /\ r.client = cl
                 /\ ~wrote => r.ret = "WriteFailed"
                 /\ (wrote /\ reply.kind = "Err") => r.ret = "ReadFailed"
                 /\ (wrote /\ reply.kind = "None") => r.ret = "NoDataAvailable"
                 /\ (wrote /\ IsRefusal(reply)) =>
                        (r.ret = "Ok" /\ r.cap_error = reply.item.msg.data[2])
                 /\ (wrote /\ reply.kind = "Data" /\ reply.item.ok
                           /\ Len(reply.item.msg.data) > 0
                           /\ reply.item.msg.data[1] # Assignment) =>
                        r.ret = "BadPacket"
                 /\ (wrote /\ reply.kind = "Data" /\ ~IsRefusal(reply)) =>
                        r.ret \notin {"Ok", "WriteFailed", "ReadFailed",
                                      "NoDataAvailable"}

\* the client has subscribed: its Subscription is on the CAP and it holds
\* the paths of the Assignment
C14_Witness ==
    /\ cl.state = "Subscribed"
    /\ cl.tx_pipe = "/tmp/clients/c1_tx.fifo"
    /\ cl.rx_pipe = "/tmp/clients/c1_rx.fifo"
    /\ lastWrite = Frame(cap_pipe,
                         CapMessage("c1", None, encode_subscribe(<<"c1">>)))

\* what loop_start returns and does to the client, by state
C15_ByState ==
    LET r == loop_start(cl, Len(readers) + 1)
    IN  /\ r.ret = "Ok" <=>
               (cl.state = "Subscribed" /\ cl.tx_pipe # None
                    /\ cl.rx_pipe # None)
        /\ r.ret = "Ok" =>
               (r.spawn /\ r.client.state = "Running"
                    /\ r.client.tx_pipe = cl.tx_pipe
                    /\ r.client.rx_pipe = cl.rx_pipe)
        /\ r.ret # "Ok" => (~r.spawn /\ r.client = cl)
        /\ cl.state = "Running" => r.ret = "ThreadAlreadyRunning"
        /\ cl.state \in {"Initialized", "Stopped", "Unsubscribed"} =>
               r.ret = "NotSubscribed"

\* a reader task is started only by a step from Subscribed to Running, and
\* such a step starts one
C15_OneTask ==
    /\ (cl.state = "Subscribed" /\ cl'.state = "Running") =>
           /\ Len(readers') = Len(readers) + 1
           /\ readers'[Len(readers')].pc = "check"
           /\ cl'.client_loop = Len(readers')
    /\ Len(readers') # Len(readers) =>
           (cl.state = "Subscribed" /\ cl'.state = "Running")

\* C15: loop_start succeeds only in state Subscribed with both pipe paths
\* set; it then sets the state to Running and starts exactly one reader task.
\* In Running it returns ThreadAlreadyRunning and in Initialized, Stopped and
\* Unsubscribed NotSubscribed, leaving the client as it is and starting no
\* task.
C15_LoopStart == [](C15_ByState) /\ [][C15_OneTask]_vars

\* loop_start has started the first reader task
C15_Witness ==
    /\ cl.state = "Running"
    /\ Len(readers) = 1
    /\ cl.client_loop = 1
    /\ cl.client_receiver = 1

\* what loop_stop does before its join, by state
C16_ByState ==
    LET r == loop_stop(cl)
    IN  /\ r.ret = "Ok"
        /\ cl.state = "Running" =>
               (r.join /\ r.client = [cl EXCEPT !.state = "Stopped"]
                    /\ cl.client_loop # 0)
        /\ cl.state # "Running" => (~r.join /\ r.client = cl)

\* loop_stop returns from its join with the state Stopped and the task that
\* client_loop held ended
C16_Joined ==
    (clientPc = "loop_stop_join" /\ clientPc' = "idle") =>
        /\ cl.client_loop # 0
        /\ readers[cl.client_loop].pc = "done"
        /\ cl'.state = "Stopped"
        /\ cl'.client_loop = 0

\* C16: in state Running loop_stop sets the state to Stopped and returns
\* only after the reader task held in client_loop has ended, and its join
\* always completes; in every other state it returns Ok and changes nothing.
C16_LoopStop ==
    /\ [](C16_ByState)
    /\ [][C16_Joined]_vars
    /\ (clientPc = "loop_stop_join") ~> (clientPc = "idle")

\* loop_stop has returned: the state is Stopped and the task has ended
C16_Witness ==
    /\ cl.state = "Stopped"
    /\ clientPc = "idle"
    /\ cl.client_loop = 0
    /\ Len(readers) = 1
    /\ readers[1].pc = "done"

\* C17: send and send_ex write on the TX pipe only in Subscribed and
\* Running; in Initialized, Stopped and Unsubscribed they return
\* NotSubscribed and write nothing; a message they write has the client's id
\* as origin and the given remote.
C17_SendOnlySubscribed ==
    \A remote \in SendRemotes, ttl \in SendTtls, options \in SendOptions,
       wrote \in BOOLEAN :
        LET r == send_ex(cl, remote, <<>>, ttl, options, wrote)
            s == send(cl, remote, <<>>, wrote)
        IN  /\ cl.state \in {"Initialized", "Stopped", "Unsubscribed"} =>
                /\ r = [ret |-> "NotSubscribed", out |-> NoFrame]
                /\ s = [ret |-> "NotSubscribed", out |-> NoFrame]
            /\ r.out # NoFrame =>
                /\ cl.state \in {"Subscribed", "Running"}
                /\ r.out.pipe = cl.tx_pipe
                /\ r.out.pipe = "/tmp/clients/c1_tx.fifo"
                /\ r.out.msg.origin = cl.id
                /\ r.out.msg.remote = remote
            /\ s.out # NoFrame =>
                /\ cl.state \in {"Subscribed", "Running"}
                /\ s.out.pipe = cl.tx_pipe
                /\ s.out.msg.origin = cl.id
                /\ s.out.msg.remote = remote
            /\ (cl.state \in {"Subscribed", "Running"} /\ wrote) =>
                (r.ret = "Ok" /\ r.out # NoFrame /\ s.out # NoFrame)

\* the running client has sent a message to c2 on its TX pipe
C17_Witness ==
    /\ cl.state = "Running"
    /\ lastWrite = Frame("/tmp/clients/c1_tx.fifo",
                         OctopipesMessage_new("c1", "c2", 0, "empty", <<>>))

\* what unsubscribe does before the join of its loop_stop, by state
C18_ByState ==
    \A wrote \in BOOLEAN :
        LET r == unsubscribe(cl, wrote)
        IN  /\ cl.state \notin {"Subscribed", "Running"} =>
                r = [ret |-> "NotSubscribed", client |-> cl, out |-> NoFrame,
                     join |-> FALSE]
            /\ (cl.state \in {"Subscribed", "Running"} /\ ~wrote) =>
                r = [ret |-> "WriteFailed", client |-> cl, out |-> NoFrame,
                     join |-> FALSE]
            /\ (cl.state \in {"Subscribed", "Running"} /\ wrote) =>
                /\ r.ret = "Ok"
                /\ r.out = Frame(cap_pipe,
                                 CapMessage(cl.id, None, <<Unsubscription>>))
                /\ cl.state = "Subscribed" =>
                       (~r.join /\ r.client = [cl EXCEPT !.state = "Unsubscribed"])
                /\ cl.state = "Running" =>
                       (r.join /\ r.client.state = "Stopped"
                            /\ cl.client_loop # 0)

\* unsubscribe returns from the join with the state Unsubscribed and the task
\* that client_loop held ended
C18_Joined ==
    (clientPc = "unsubscribe_join" /\ clientPc' = "idle") =>
        /\ cl.client_loop # 0
        /\ readers[cl.client_loop].pc = "done"
        /\ cl'.state = "Unsubscribed"

\* C18: in Subscribed and Running unsubscribe writes one Unsubscription with
\* the client's id as origin on the CAP, stops the reader task held in
\* client_loop when the state is Running, and ends in Unsubscribed; in any
\* other state it returns NotSubscribed and writes nothing; when the write
\* on the CAP fails it returns the error and leaves the state and the reader
\* task as they are.
C18_Unsubscribe == [](C18_ByState) /\ [][C18_Joined]_vars

\* the running client has unsubscribed: its Unsubscription is on the CAP
\* and its reader task has ended
C18_Witness ==
    /\ cl.state = "Unsubscribed"
    /\ clientPc = "idle"
    /\ lastWrite = Frame(cap_pipe, CapMessage("c1", None, <<Unsubscription>>))
    /\ Len(readers) = 1
    /\ readers[1].pc = "done"

\* C19: outside Running get_next_message and get_all_message return an
\* error and take nothing from the inbox; in Running an empty inbox gives
\* Ok(None), an empty vector for get_all_message, and an empty inbox whose
\* sender is gone gives ThreadError.
C19_OnlyWhileRunning ==
    \A disconnected \in BOOLEAN :
        LET n == ClientGetNext(cl, ReceiverQ, disconnected)
            a == ClientGetAll(cl, ReceiverQ, disconnected, <<>>)
        IN  /\ cl.state # "Running" =>
                /\ n.ret \notin {"Some", "None"}
                /\ n.q = ReceiverQ
                /\ a.ret # "Ok"
                /\ a.q = ReceiverQ
            /\ (cl.state = "Running" /\ ReceiverQ = <<>>) =>
                /\ n.ret = IF disconnected THEN "ThreadError" ELSE "None"
                /\ a.ret = IF disconnected THEN "ThreadError" ELSE "Ok"
                /\ a.inbox = <<>>
                /\ n.q = <<>>
                /\ a.q = <<>>
            /\ (cl.state = "Running" /\ ReceiverQ # <<>>) =>
                /\ n.q = Tail(ReceiverQ)
                /\ Head(ReceiverQ).ok =>
                       (n.ret = "Some" /\ n.message = Head(ReceiverQ).msg)

\* the client was stopped with a message left in its inbox
C19_Witness ==
    /\ cl.state = "Stopped"
    /\ cl.client_receiver = 1
    /\ Len(ReceiverQ) > 0
    /\ Head(ReceiverQ).ok

\* C20: an Unsubscription from C removes the worker of C from the registry,
\* its reader task ended and its two FIFOs unlinked, and leaves every other
\* worker as it is and in the same order; when no worker of C is registered
\* it returns WorkerNotFound and leaves the registry and the FIFOs as they
\* are. Nothing is written on the CAP in either case.
C20_Unsubscription ==
    \A c \in Clients, fail \in {"none", "rx", "tx"} :
        LET m == CapMessage(c, None, <<Unsubscription>>)
            r == manage_cap_message(state, workers, fs, m, fail)
        IN  /\ ~r.write
            /\ IF Registered(c)
               THEN /\ r.workers = SelectSeq(workers, LAMBDA w : w.client_id # c)
                    /\ Len(r.workers) = Len(workers) - 1
                    /\ r.fs = fs \ {client_folder \o "/" \o c \o "_tx.fifo",
                                    client_folder \o "/" \o c \o "_rx.fifo"}
                    /\ r.okRet # "WorkerNotFound"
                    /\ \A i \in 1..Len(workers) :
                         (workers[i].client_id = c /\ workers[i].worker_loop) =>
                             r.okRet = "Unsubscription"
               ELSE /\ r.okRet = "WorkerNotFound"
                    /\ r.workers = workers
                    /\ r.fs = fs

\* c1 and c2 are registered on a running broker, c1 first, both with their
\* FIFOs: an Unsubscription of c1 has to leave c2 alone
C20_Witness ==
    /\ state = "Running"
    /\ mainPc = "idle"
    /\ Len(workers) = 2
    /\ workers[1].client_id = "c1"
    /\ workers[1].worker_loop
    /\ "/tmp/clients/c2_rx.fifo" \in fs

\* the CAP messages without origin, and those whose body is an Assignment,
\* has an unknown type byte or is empty
NotARequest ==
    {m \in CapMessages :
        \/ m.origin = None
        \/ m.data = <<>>
        \/ m.data[1] \notin {Subscription, Unsubscription}}

\* C21: manage_cap_message returns NoRecipient on a message with no origin,
\* and BadPacket on a message with an origin whose body is an Assignment,
\* has an unknown type byte or is empty; in both cases it writes nothing on
\* the CAP (NoWrite: the handler returns before lock_cap and write_cap, so
\* the server state and the CAP FIFO are not touched) and leaves the registry
\* and the FIFOs as they are.
C21_BadCapMessage ==
    \A m \in NotARequest, fail \in {"none", "rx", "tx"} :
        LET r == manage_cap_message(state, workers, fs, m, fail)
        IN  IF m.origin = None
            THEN r = NoWrite("NoRecipient", workers, fs)
            ELSE r = NoWrite("BadPacket", workers, fs)

\* a running broker with c2 registered and a frame waiting in the CAP FIFO
C21_Witness ==
    /\ state = "Running"
    /\ mainPc = "idle"
    /\ Len(workers) = 1
    /\ workers[1].client_id = "c2"
    /\ capPipe # <<>>

\* C22: dispatch_message of a message without remote returns NoRecipient and
\* sends to no worker; when the send to a matching worker fails it returns
\* that worker's client_id with the error, the matching workers before it in
\* registry order have been sent the message and those after it have not.
C22_FailFast ==
    \A remote \in Remotes, okset \in SUBSET Clients :
        LET message == Message(None, remote, 0)
            d == dispatch_message(workers, message, okset, fs)
            matched == match_subscription(workers, remote, 1)
            k == Len(d.sends)
        IN  /\ remote = None =>
                d = [ret |-> "NoRecipient", failed |-> None, sends |-> <<>>]
            /\ (remote # None /\ d.ret # "Ok") =>
                /\ k >= 1
                /\ k <= Len(matched)
                /\ d.failed = matched[k].client_id
                /\ d.ret = WorkerSend(matched[k], message, okset, fs)
                /\ \A j \in 1..k : d.sends[j] = matched[j].client_id
                /\ \A j \in 1..(k - 1) :
                     WorkerSend(matched[j], message, okset, fs) = "Ok"
                /\ \A j \in (k + 1)..Len(matched) :
                     Count(d.sends, matched[j].client_id) = 0

\* c1 and c2 both hold the group c1: when the send to the first fails the
\* second is not sent the message
C22_Witness ==
    /\ Len(workers) = 2
    /\ workers[1].client_id # workers[2].client_id
    /\ \A i \in 1..2 : \E j \in 1..Len(workers[i].groups) :
           workers[i].groups[j] = "c1"
    /\ dispatch_message(workers, Message(None, "c1", 0),
                        {workers[2].client_id}, fs).sends
           = <<workers[1].client_id>>

\* C23: round trip of a message: for every message with ICK clear, with
\* origin and remote absent or a String of at most 255 bytes, and any ttl,
\* options and data, decode_message of its encode_message succeeds and gives
\* back the message, field by field.
C23_RoundTrip ==
    (/\ wire.pc = "decoded"
     /\ wire.tamper = Untouched
     /\ ~isset_option(wire.message, ICK)) =>
        wire.result = Decoded("Ok", wire.message)

\* C24: round trip of a frame: every buffer decode_message accepts with ICK
\* clear is what encode_message makes of the decoded message, byte for byte
\* and with the same length.
C24_FrameRoundTrip ==
    (/\ wire.pc = "decoded"
     /\ wire.result.err = "Ok"
     /\ ~isset_option(wire.result.message, ICK)) =>
        encode_message(wire.result.message) = wire.frame

\* C25: one flipped bit, anywhere but in the checksum byte, of the frame of a
\* message with ICK clear makes decode_message return BadChecksum.
C25_FlipDetected ==
    (/\ wire.pc = "decoded"
     /\ wire.tamper.kind = "flip"
     /\ wire.tamper.at # checksum_index(wire.message)
     /\ ~isset_option(wire.message, ICK)) =>
        wire.result.err = "BadChecksum"

\* C26: decode_message returns BadPacket on every proper prefix of an
\* encoded frame, the empty buffer included: no access out of range, no
\* message.
C26_PrefixIsBadPacket ==
    /\ (wire.pc = "written" /\ wire.tamper = Untouched) =>
           \A n \in 0..(Len(wire.frame) - 1) :
               decode_message(SubSeq(wire.frame, 1, n))
                   = Decoded("BadPacket", NoMessage)
    /\ (wire.pc = "decoded" /\ wire.tamper.kind = "truncate") =>
           wire.result = Decoded("BadPacket", NoMessage)

\* a frame with an origin, a remote and data lost its ETX only, and was
\* refused as a bad packet
C26_Witness ==
    /\ wire.pc = "decoded"
    /\ wire.tamper.kind = "truncate"
    /\ wire.message.origin.some
    /\ wire.message.remote = SomeString(<<66>>)
    /\ wire.message.data # <<>>
    /\ Len(wire.frame) = Len(encode_message(wire.message)) - 1
    /\ wire.result.err = "BadPacket"

\* C27: an encoded frame whose version byte is set to a value other than 1
\* makes decode_message return UnsupportedVersion.
C27_OtherVersion ==
    /\ (wire.pc = "written" /\ wire.tamper = Untouched) =>
           \A v \in (0..255) \ {Version1} :
               decode_message([wire.frame EXCEPT ![2] = v])
                   = Decoded("UnsupportedVersion", NoMessage)
    /\ (wire.pc = "decoded" /\ wire.tamper.kind = "version") =>
           wire.result = Decoded("UnsupportedVersion", NoMessage)

\* the frame of a message with an origin and data was given version 2 and
\* refused for its version
C27_Witness ==
    /\ wire.pc = "decoded"
    /\ wire.tamper.kind = "version"
    /\ wire.frame[2] = 2
    /\ wire.message.origin = SomeString(<<65>>)
    /\ wire.message.data # <<>>
    /\ wire.result.err = "UnsupportedVersion"

\* C28: round trip of the CAP payloads: the decoded Subscription is the
\* encoded group list, in order; the decoded Assignment(NoError, tx, rx)
\* is (NoError, tx, rx); the encoded Unsubscription decodes.
C28_CapRoundTrip ==
    (/\ capw.pc = "decoded"
     /\ capw.tamper = Untouched
     /\ capw.decoder = capw.kind) =>
        /\ capw.kind = "subscribe" =>
               capw.result = CapDecoded("Ok", capw.groups, NoError, NoString,
                                        NoString)
        /\ (/\ capw.kind = "assignment"
            /\ capw.error = NoError
            /\ capw.tx_pipe.some
            /\ capw.rx_pipe.some) =>
               capw.result = CapDecoded("Ok", <<>>, NoError, capw.tx_pipe,
                                        capw.rx_pipe)
        /\ capw.kind = "unsubscribe" => capw.result.err = "Ok"

\* C29: the Subscription and Assignment decoders return BadPacket, and fail
\* in no other way, on every proper prefix of an encoded payload of theirs
\* and on every payload whose first byte is not their type; the Assignment
\* decoder returns (err, None, None) when the CAP error is not NoError.
C29_CapRejects ==
    (capw.pc = "decoded" /\ capw.decoder \in {"subscribe", "assignment"}) =>
        /\ (/\ capw.tamper.kind = "truncate"
            /\ capw.kind = capw.decoder
            /\ (capw.error = NoError \/ ~capw.tx_pipe.some
                    \/ ~capw.rx_pipe.some)) =>
               capw.result = CapFailed("BadPacket")
        /\ (capw.payload = <<>> \/ Fetch(capw.payload, 0) # TypeOf(capw.decoder))
               => capw.result = CapFailed("BadPacket")
        /\ (/\ capw.decoder = "assignment"
            /\ capw.kind = "assignment"
            /\ capw.tamper = Untouched
            /\ capw.error # NoError) =>
               capw.result = CapDecoded("Ok", <<>>, capw.error, NoString,
                                        NoString)

\* what manage_cap_message leaves when it has started the worker of an
\* accepted Subscription and is about to write the Assignment
C30_Started ==
    (mainPc = "cap_write" /\ pending[1].okRet = "Subscription") =>
        /\ pending[1].failRet = "WriteFailed"
        /\ \E i \in 1..Len(workers) :
             /\ workers[i].client_id = pending[1].client
             /\ workers[i].worker_loop
             /\ {workers[i].pipe_read, workers[i].pipe_write} \subseteq fs

\* the write of that Assignment, whether it succeeds or fails
C30_Kept ==
    (mainPc = "cap_write" /\ pending[1].okRet = "Subscription"
         /\ mainPc' = "idle") =>
        /\ Len(workers') = Len(workers)
        /\ \A i \in 1..Len(workers) :
             /\ workers'[i].client_id = workers[i].client_id
             /\ workers'[i].worker_loop = workers[i].worker_loop
        /\ fs' = fs
        /\ state' = "Running"

\* C30: when the write of the Assignment(NoError) on the CAP fails after the
\* worker was started, manage_cap_message returns WriteFailed and nothing is
\* rolled back: the worker stays registered with its FIFOs and its reader
\* task, and the server state is Running again.
C30_NoRollback == [](C30_Started) /\ [][C30_Kept]_vars

\* c1 is registered with its FIFOs and its reader task on a running broker
\* and no Assignment is in the CAP FIFO or in the CAP channel
C30_Witness ==
    /\ state = "Running"
    /\ mainPc = "idle"
    /\ Len(workers) = 1
    /\ workers[1].client_id = "c1"
    /\ workers[1].worker_loop
    /\ {"/tmp/clients/c1_tx.fifo", "/tmp/clients/c1_rx.fifo"} \subseteq fs
    /\ capPipe = <<>>
    /\ cap_receiver.q = <<>>

\* what manage_cap_message does, up to the write, with a Subscription of a
\* client that is not registered when start_worker fails: because the broker
\* is not Running, or because a FIFO of the worker cannot be created
C31_StartFailureHandled ==
    \A m \in CapMessages, fail \in {"none", "rx", "tx"} :
        (IsSubscription(m) /\ ~Registered(m.origin)
            /\ (state # "Running" \/ fail # "none")) =>
            LET r == manage_cap_message(state, workers, fs, m, fail)
            IN  /\ r.write
                /\ r.data = <<Assignment, FileSystemError>>
                /\ r.okRet = IF state # "Running" THEN "Uninitialized"
                                                  ELSE "OpenFailed"
                /\ r.failRet = r.okRet
                /\ r.workers = workers

\* what the write of that Assignment does
C31_StartFailureWritten ==
    (mainPc = "cap_write" /\ pending[1].data = <<Assignment, FileSystemError>>) =>
        /\ workers' = workers
        /\ pending[1].okRet \in {"Uninitialized", "OpenFailed"}
        /\ pending[1].failRet = pending[1].okRet
        /\ (mainPc' = "idle" /\ capPipe' # capPipe) =>
               capPipe' = Append(capPipe,
                              OkItem(CapMessage(None, pending[1].client,
                                                <<Assignment, FileSystemError>>)))

\* C31: when start_worker fails for the Subscription of a client that is not
\* registered, manage_cap_message writes an Assignment with FileSystemError
\* and no paths on the CAP, returns the error of start_worker whether or not
\* the write succeeds, and adds no worker to the registry, neither up to the
\* write nor in the write.
C31_StartFailure == [](C31_StartFailureHandled) /\ [][C31_StartFailureWritten]_vars

\* the Assignment with FileSystemError that answers a Subscription of c1,
\* whose FIFO could not be created, is in the CAP FIFO and c1 is not registered
C31_Witness ==
    /\ state = "Running"
    /\ mainPc = "idle"
    /\ ~Registered("c1")
    /\ capPipe = <<OkItem(CapMessage(None, "c1", <<Assignment, FileSystemError>>))>>

\* the messages a reader task may decode: without options, with RCK, and
\* ACKs, from a client or without origin
C32_Messages ==
    {OctopipesMessage_new(o, ClientId, t, opt, d) :
        o \in {"c2", None}, t \in {0, 60}, opt \in {"empty", "RCK", "ACK"},
        d \in {<<>>, <<1>>}}

\* the calls of the reader task on each of these messages
C32_Calls ==
    \A m \in C32_Messages :
        LET calls == reader_on_message(cl.id, cl.tx_pipe, m)
            ack == OctopipesMessage_new(cl.id, m.origin, m.ttl, "ACK", <<>>)
        IN  IF m.options = "RCK"
            THEN calls = <<[call |-> "pipe_write", frame |-> Frame(cl.tx_pipe, ack)],
                           [call |-> "send", item |-> OkItem(m)]>>
            ELSE calls = <<[call |-> "send", item |-> OkItem(m)]>>

\* a step in which a reader task puts a message in the inbox writes nothing
\* but the ACK of that message, and only if the message has RCK
C32_Step ==
    \A i \in 1..Len(readers) :
        (/\ readers[i].pc = "read"
         /\ Len(readers'[i].q) = Len(readers[i].q) + 1
         /\ readers'[i].q[Len(readers'[i].q)].ok) =>
            LET m == readers'[i].q[Len(readers'[i].q)].msg
            IN  \/ lastWrite' = lastWrite
                \/ /\ m.options = "RCK"
                   /\ lastWrite' =
                          Frame(cl.tx_pipe,
                                OctopipesMessage_new(cl.id, m.origin, m.ttl,
                                                     "ACK", <<>>))

\* C32: on a decoded message with RCK the client's reader task makes exactly
\* one pipe_write, of an ACK (origin the client's id, remote the message's
\* origin, ttl the message's ttl, options ACK, no data) on its TX pipe, and
\* then sends the received message on the inbox channel whatever the write
\* returned; on a message without RCK, an ACK in particular, it only sends
\* the message on the channel.
C32_AckThenInbox == [](C32_Calls) /\ [][C32_Step]_vars

\* a message with RCK from c2 is in the inbox and its ACK is the last frame
\* written on the TX pipe
C32_Witness ==
    /\ cl.state = "Running"
    /\ \E i \in 1..Len(readers) :
          /\ Len(readers[i].q) > 0
          /\ readers[i].q[1].ok
          /\ readers[i].q[1].msg.options = "RCK"
          /\ lastWrite = Frame(cl.tx_pipe,
                               OctopipesMessage_new(cl.id, readers[i].q[1].msg.origin,
                                                    readers[i].q[1].msg.ttl, "ACK", <<>>))

\* C33: whenever the client is Subscribed or Running, its tx_pipe and rx_pipe
\* are the paths the broker assigns to the worker registered under the
\* client's own id, never those assigned to another client that subscribes
\* at the same time on the same CAP.
C33_OwnAssignment ==
    cl.state \in {"Subscribed", "Running"} =>
        /\ cl.tx_pipe = TxPipe(client_folder, cl.id)
        /\ cl.rx_pipe = RxPipe(client_folder, cl.id)

\* C34: as long as no client has written a message on its TX pipe (nextSeq
\* is that of the first message) and every TX FIFO exists, so that every read
\* of a worker's reader task ended with no data, every worker inbox is empty
\* and process_once returns Ok(0).
C34_IdleReadsNothing ==
    (nextSeq = 1 /\ \A i \in 1..Len(workers) : workers[i].pipe_read \in fs) =>
        /\ \A i \in 1..Len(workers) : workers[i].inbox = <<>>
        /\ \A okset \in SUBSET Clients :
              LET r == process_once(workers, okset, fs)
              IN  r.ret = "Ok" /\ r.processed = 0

\* reader task i has been started and has not ended
ReaderAlive(i) == i <= Len(readers) /\ readers[i].pc # "done"

\* C35: at any time at most one reader task of the client is alive, and no
\* reader task stays alive for ever while the client's state is not Running,
\* whatever calls of subscribe, loop_start, loop_stop, unsubscribe, send and
\* get_next_message are made.
C35_OneReaderWhileRunning ==
    /\ [](Cardinality({i \in 1..MaxReaders : ReaderAlive(i)}) <= 1)
    /\ \A i \in 1..MaxReaders : []<>(~ReaderAlive(i) \/ cl.state = "Running")

\* while the main thread waits in a join it holds no mutex and the state,
\* respectively the active flag, has been changed
C36_ReleasedBeforeJoin ==
    /\ sd.pc = "join_listener" =>
           (sd.state = "Stopped" /\ sd.state_lock # "main")
    /\ sd.pc = "join_worker" =>
           (~sd.active[sd.k] /\ sd.active_lock[sd.k] # "main")

\* the listener task ends when it sees a state other than Running and Block,
\* and a reader task ends its loop after the iteration in which it saw the
\* flag cleared
C36_TasksExit ==
    /\ (sd.listener = "locked" /\ sd'.listener # "locked") =>
           (sd'.listener = "done" <=> sd.state \notin {"Running", "Block"})
    /\ \A k \in 1..sd.n :
          /\ (sd.reader[k] = "locked" /\ sd'.reader[k] # "locked") =>
                 (sd'.terminate[k] <=> ~sd.active[k])
          /\ (sd.reader[k] = "read" /\ sd'.reader[k] # "read") =>
                 (sd'.reader[k] = "done" <=> sd.terminate[k])

\* C36: the shutdown never deadlocks. stop_cap_listener and stop_worker have
\* changed the state, respectively the active flag, and released the mutex
\* when they join; the listener task ends once it sees a state other than
\* Running and Block and a reader task once it sees the flag cleared; so
\* each join returns and every call of stop_server returns.
C36_ShutdownReturns ==
    /\ [](C36_ReleasedBeforeJoin)
    /\ [][C36_TasksExit]_vars
    /\ (sd.pc = "join_worker") ~> (sd.pc # "join_worker")
    /\ (sd.pc = "join_listener") ~> (sd.pc = "returned")
    /\ (sd.pc = "stop_server") ~> (sd.pc = "returned")

\* stop_server has returned Ok on a broker with two workers: both reader
\* tasks and the listener task have ended and were joined
C36_Witness ==
    /\ sd.pc = "returned"
    /\ sd.ret = "Ok"
    /\ sd.n = 2
    /\ sd.state = "Stopped"
    /\ sd.listener = "joined"
    /\ sd.reader = <<"done", "done">>
    /\ sd.worker_loop = <<FALSE, FALSE>>

\* C37: stopping a worker that was already stopped (its reader task joined,
\* worker_loop empty) returns Ok and changes neither the worker nor the
\* FIFOs; so stop_server on a broker whose workers were all stopped before
\* returns Ok.
C37_StopWorkerIdempotent ==
    /\ \A i \in 1..Len(workers) :
          ~workers[i].worker_loop =>
              LET r == WorkerStop(workers[i], fs, IdleItem)
              IN  r.ret = "Ok" /\ r.worker = workers[i] /\ r.fs = fs
    /\ (\A i \in 1..Len(workers) : ~workers[i].worker_loop) =>
          stop_server(state, workers, fs).ret = "Ok"

\* C38: when stop_server, called on a Running broker, returns Ok (its join of
\* the CAP listener returns), no worker is registered: get_clients is empty
\* and is_subscribed is None for every client id.
C38_NoWorkerAfterStop ==
    [][(mainPc = "join_listener" /\ pending[1].op = "stop_server"
            /\ mainPc' = "idle")
           => (/\ Len(get_clients(workers')) = 0
               /\ \A c \in Clients : ~is_subscribed(workers', c))]_vars

\* C39: the drains of the client's inbox lose no message. get_next_message
\* returns the message it takes out of the channel; and when a
\* get_all_message call returns, the messages it returns are all those it
\* took out of the channel, also when an error item came behind them.
C39_NoMessageLost ==
    /\ LET r == ClientGetNext(cl, ReceiverQ, ReceiverDisconnected)
       IN  r.q # ReceiverQ =>
               \/ ~Head(ReceiverQ).ok
               \/ r.ret = "Some" /\ r.message = Head(ReceiverQ).msg
    /\ drain.ret # "none" => drain.inbox = drain.taken

\* the data size a frame declares puts the ETX at or beyond the end of the
\* frame: the sum of the index after the STX and the u64, without a wrap
EtxBeyondEnd(frame, message) ==
    LET data_size == data_size_of(SubSeq(frame, size_index(message) + 1,
                                         size_index(message) + 8))
        first == checksum_index(message) + 2
    IN  data_size < 0 \/ first + data_size >= Len(frame)

\* C40: decode_message returns BadPacket for every buffer whose data size
\* field holds a value, anywhere in 0..2^64-1, that puts the ETX at or beyond
\* the end of the buffer, the values included for which the index plus the
\* data size passes the machine word: the index is not wrapped and the frame
\* is not accepted.
C40_OversizeIsBadPacket ==
    (/\ wire.pc = "decoded"
     /\ wire.tamper.kind = "size"
     /\ EtxBeyondEnd(wire.frame, wire.message)) =>
        wire.result = Decoded("BadPacket", NoMessage)

====
